---- MODULE Spec2Model ----
(***************************************************************************)
(* Grid path-finding: Cell / Grid / Agent (environment.py, classes/) and   *)
(* the search algorithms of algorithms/ (bfs, dfs, iddfs, astar, greedy,   *)
(* beam, bidirectional).                                                   *)
(*                                                                         *)
(* A cell is the pair <<x, y>>; Cell.__eq__ and __hash__ use the           *)
(* coordinates only, so the pair is the cell's identity.  The mutable      *)
(* annotations g, h, parent live in three functions over the grid's cells. *)
(* The algorithms reach the agent's Grid as agent.map (bfs, dfs, astar,    *)
(* greedy, bidirectional) or agent.grid (iddfs, beam); both denote the one *)
(* Grid the agent was built on.                                            *)
(***************************************************************************)
EXTENDS Integers, Sequences, FiniteSets, TLC

\* ---------------------------------------------------------------- bounds
MaxW == 3
MaxH == 2
MaxBlocked == 2
MaxGoals == 2
MaxPath == 10
MaxRuns == 3
MaxAgents == 2

VARIABLES
  width, height,      \* Grid.width, Grid.height
  blocked,            \* set of cells whose Cell.blocked is True
  g, h, parent,       \* Cell.g, Cell.h, Cell.parent of every cell
  cell, goals,        \* Agent.cell, Agent.goals (ordered list)
  can_jump,           \* Agent.can_jump
  alg, param,         \* algorithm called; its limit / beam_width argument
  pc,                 \* position inside the call
  open_list,          \* queue / stack / open_list / open_list_start
  open_list_goal,     \* bidirectional: open_list_goal
  visited,            \* visited / closed_set / closed_set_start
  closed_set_goal,    \* bidirectional: closed_set_goal
  count,              \* count
  goal,               \* the local `goal` (nearest goal chosen at entry)
  depth, frames,      \* iddfs: depth of the for loop; dls recursion stack
  expanded,           \* the cell(s) expanded by the latest loop iteration
  tjobs, tpath, tparts, tconn, rgoal,  \* trace_path calls in progress
  result,             \* value returned by the call
  runs, agents,       \* search calls made; agents constructed on the grid
  last, prev,         \* the call before the current one, with its result;
                      \* pc when the current call began
  cut,                \* beam: the cells line 55 has dropped from open_list
                      \* since the current call began
  path_all, goals_found,  \* search_all: the locals `path` and `goals`
  cell0, goals0,      \* search_all: agent.cell and agent.goals at its entry
  argv, stdin,        \* search.py: sys.argv; the line input() would read
  console, raised     \* search.py: messages printed; the uncaught exception

gridVars  == <<width, height, blocked>>
cellVars  == <<g, h, parent>>
agentVars == <<cell, goals, can_jump>>
callVars  == <<alg, param>>
loopVars  == <<open_list, open_list_goal, visited, closed_set_goal, count, goal,
               depth, frames, expanded>>
traceVars == <<tjobs, tpath, tparts, tconn, rgoal>>
histVars  == <<runs, agents, last, prev, cut>>
allVars   == <<path_all, goals_found, cell0, goals0>>
drvVars   == <<argv, stdin, console, raised>>
vars == <<gridVars, cellVars, agentVars, callVars, pc, loopVars, traceVars,
          result, histVars, allVars, drvVars>>

None == << >>

\* ------------------------------------------------- environment.py: Cell
CellsOf(w, ht) == (0..(w - 1)) \X (0..(ht - 1))
Cells == CellsOf(width, height)

Abs(n) == IF n < 0 THEN -n ELSE n

\* Cell.manhattan_distance
manhattan_distance(a, b) == Abs(a[1] - b[1]) + Abs(a[2] - b[2])

\* Direction enum, in definition order
Direction == <<"up", "left", "down", "right">>

\* Cell.__sub__: direction from self to other
CellSub(self, other) ==
  LET dx == other[1] - self[1]
      dy == other[2] - self[2]
  IN IF dx = 0 THEN (IF dy < 0 THEN "up" ELSE "down")
     ELSE (IF dx < 0 THEN "left" ELSE "right")

\* Cell.f
F(gg, hh, c) == gg[c] + hh[c]

\* ------------------------------------------------- environment.py: Grid
is_valid(x, y) == 0 <= x /\ x < width /\ 0 <= y /\ y < height

\* coordinates Grid.get_neighbor computes before the validity test
NeighborAt(c, dir, distance) ==
  IF dir = "up" THEN <<c[1], c[2] - distance>>
  ELSE IF dir = "left" THEN <<c[1] - distance, c[2]>>
  ELSE IF dir = "down" THEN <<c[1], c[2] + distance>>
  ELSE <<c[1] + distance, c[2]>>

get_neighbor(c, dir, distance) ==
  LET n == NeighborAt(c, dir, distance)
  IN IF is_valid(n[1], n[2]) THEN n ELSE None

\* NeighborsDir that leaves the while loop after the first neighbor, as if
\* can_jump were always false
NeighborsDir_OneStep(c, dir, jump) ==
  IF get_neighbor(c, dir, 1) # None THEN <<get_neighbor(c, dir, 1)>> ELSE << >>

\* the cells the while loop of get_neighbors appends for one direction
NeighborsDir(c, dir, jump) ==
  LET reach == Cardinality({d \in 1..(width + height) :
                              get_neighbor(c, dir, d) # None})
      n == IF jump THEN reach ELSE (IF reach >= 1 THEN 1 ELSE 0)
  IN [d \in 1..n |-> get_neighbor(c, dir, d)]

get_neighbors(c, jump) ==
  NeighborsDir(c, Direction[1], jump) \o NeighborsDir(c, Direction[2], jump)
    \o NeighborsDir(c, Direction[3], jump) \o NeighborsDir(c, Direction[4], jump)

\* Grid.reset / Cell.reset
ResetG == [c \in Cells |-> 0]
ResetH == [c \in Cells |-> 0]
ResetParent == [c \in Cells |-> None]

\* Grid.net_area
net_area == height * width - Cardinality(blocked)

Reverse(s) == [i \in 1..Len(s) |-> s[Len(s) + 1 - i]]
InSeq(x, s) == \E i \in 1..Len(s) : s[i] = x

\* ------------------------------------------------ environment.py: Agent
\* get_nearest_goal keeping the last minimum of the list
get_nearest_goal_Last ==
  LET d(i) == manhattan_distance(cell, goals[i])
      best == CHOOSE i \in 1..Len(goals) :
                /\ \A j \in 1..Len(goals) : d(i) <= d(j)
                /\ \A j \in (i + 1)..Len(goals) : d(j) > d(i)
  IN goals[best]

\* Agent.get_nearest_goal: min() keeps the first minimum
get_nearest_goal ==
  LET d(i) == manhattan_distance(cell, goals[i])
      best == CHOOSE i \in 1..Len(goals) :
                /\ \A j \in 1..Len(goals) : d(i) <= d(j)
                /\ \A j \in 1..(i - 1) : d(j) > d(i)
  IN goals[best]

\* the token trace_path builds for one edge: value + distance_str
Token(dir, distance) ==
  IF can_jump THEN dir \o "_" \o ToString(distance) ELSE dir

\* ------------------------------------------------------------ heapq
\* The heap an operator works on is bound by hp, so that it is computed once.
\* A heap is handled as a sequence of entries [k |-> <<k1, k2>>, it |-> item]
\* whose keys are read when the heapq function is called; item < item is the
\* lexicographic order of the keys.  Positions are 0-based as in heapq.
LtKey(a, b) == a.k[1] < b.k[1] \/ (a.k[1] = b.k[1] /\ a.k[2] < b.k[2])

RECURSIVE SiftDownLoop(_, _, _, _)
SiftDownLoop(heap, startpos, pos, newitem) ==
  IF pos > startpos
  THEN LET parentpos == (pos - 1) \div 2
           par == heap[parentpos + 1]
       IN IF LtKey(newitem, par)
          THEN SiftDownLoop([heap EXCEPT ![pos + 1] = par], startpos, parentpos, newitem)
          ELSE [heap EXCEPT ![pos + 1] = newitem]
  ELSE [heap EXCEPT ![pos + 1] = newitem]

\* heapq._siftdown
siftdown(heap, startpos, pos) ==
  CHOOSE r \in {SiftDownLoop(hp, startpos, pos, hp[pos + 1]) : hp \in {heap}} : TRUE

RECURSIVE SiftUpLoop(_, _, _, _, _)
SiftUpLoop(heap, startpos, pos, childpos, newitem) ==
  IF childpos < Len(heap)
  THEN LET rightpos == childpos + 1
           cp == IF rightpos < Len(heap) /\ ~LtKey(heap[childpos + 1], heap[rightpos + 1])
                 THEN rightpos ELSE childpos
       IN SiftUpLoop([heap EXCEPT ![pos + 1] = heap[cp + 1]], startpos, cp, 2 * cp + 1, newitem)
  ELSE siftdown([heap EXCEPT ![pos + 1] = newitem], startpos, pos)

\* heapq._siftup
siftup(heap, pos) ==
  CHOOSE r \in {SiftUpLoop(hp, pos, pos, 2 * pos + 1, hp[pos + 1]) : hp \in {heap}} : TRUE

\* heapq.heappush
heappush(heap, item) ==
  CHOOSE r \in {siftdown(hp, 0, Len(hp) - 1) : hp \in {Append(heap, item)}} : TRUE

\* heapq.heappop: the heap left behind (the item returned is heap[1])
heappop(heap) ==
  CHOOSE r \in {LET lastelt == hp[Len(hp)]
                    rest == SubSeq(hp, 1, Len(hp) - 1)
                IN IF rest = << >> THEN rest ELSE siftup([rest EXCEPT ![1] = lastelt], 0) :
                hp \in {heap}} : TRUE

RECURSIVE HeapifyLoop(_, _)
HeapifyLoop(heap, i) ==
  IF i < 0 THEN heap
  ELSE CHOOSE r \in {HeapifyLoop(hp, i - 1) : hp \in {siftup(heap, i)}} : TRUE

\* heapq.heapify
heapify(heap) == HeapifyLoop(heap, (Len(heap) \div 2) - 1)

Items(kh) == [i \in 1..Len(kh) |-> kh[i].it]

\* a list of cells ordered by Cell.__lt__ (self.f < other.f)
KeyF(gg, hh, s) == [i \in 1..Len(s) |-> [k |-> <<F(gg, hh, s[i]), 0>>, it |-> s[i]]]
PushF(gg, hh, s, c) == Items(heappush(KeyF(gg, hh, s), [k |-> <<F(gg, hh, c), 0>>, it |-> c]))
PopF(gg, hh, s) == Items(heappop(KeyF(gg, hh, s)))
HeapifyF(gg, hh, s) == Items(heapify(KeyF(gg, hh, s)))

\* ------------------------------------------------------------ results
PathResult(p, gl, n) == [kind |-> "path", path |-> p, goal |-> gl, count |-> n]
IntResult(n) == [kind |-> "int", path |-> << >>, goal |-> None, count |-> n]
NoResult == [kind |-> "none", path |-> << >>, goal |-> None, count |-> 0]

\* return <value>: the call ends
Return(res) ==
  /\ pc' = "done"
  /\ result' = res
  /\ UNCHANGED histVars

\* agent.trace_path(c): the call is entered, its while loop runs in TraceStep
EnterTrace(jobs, conn, gl) ==
  /\ pc' = "trace"
  /\ tjobs' = jobs
  /\ tpath' = << >>
  /\ tparts' = << >>
  /\ tconn' = conn
  /\ rgoal' = gl
  /\ UNCHANGED <<result, histVars>>

Job(c, backward) == [c |-> c, backward |-> backward]

\* ------------------------------------------------ Agent.trace_path
\* one iteration of `while cell.parent:`.  A path of MaxPath tokens has more
\* tokens than the grid has cells: the walk is on a cycle of parent links, it
\* goes on and the tokens it adds are no longer recorded.
TraceStep ==
  /\ pc = "trace"
  /\ LET job == Head(tjobs)
         c == job.c
         p == parent[c]
         distance == manhattan_distance(c, p)
     IN /\ p # None
        /\ tpath' = IF Len(tpath) >= MaxPath THEN tpath
                    ELSE IF job.backward
                    THEN <<Token(CellSub(p, c), distance)>> \o tpath
                    ELSE Append(tpath, Token(CellSub(c, p), distance))
        /\ tjobs' = <<Job(p, job.backward)>> \o Tail(tjobs)
  /\ UNCHANGED <<gridVars, allVars, drvVars, cellVars, agentVars, callVars, pc, loopVars,
                 tparts, tconn, rgoal, result, histVars>>

\* the path a caller builds from the traced parts
Stitch(parts, conn) ==
  IF Len(parts) = 1 THEN parts[1] ELSE parts[1] \o <<conn>> \o parts[2]

\* `while cell.parent:` fails, trace_path returns; after the last trace_path
\* of a return statement the search returns its result
TraceReturn ==
  /\ pc = "trace"
  /\ parent[Head(tjobs).c] = None
  /\ tjobs' = Tail(tjobs)
  /\ tparts' = Append(tparts, tpath)
  /\ tpath' = << >>
  /\ IF Tail(tjobs) = << >>
     THEN Return(PathResult(Stitch(tparts', tconn), rgoal, count))
     ELSE UNCHANGED <<pc, result, histVars>>
  /\ UNCHANGED <<gridVars, allVars, drvVars, cellVars, agentVars, callVars, loopVars, tconn, rgoal>>

\* -------------------------------------------------- algorithms/bfs.py
\* entry of a search call: runs is counted, prev records what preceded it
Enter ==
  /\ pc \in {"idle", "done", "reset"}
  /\ runs < MaxRuns
  /\ runs' = runs + 1
  /\ prev' = pc
  /\ last' = [alg |-> alg, param |-> param, res |-> result]
  /\ cut' = {}
  /\ UNCHANGED agents

RECURSIVE BfsExpand(_, _, _, _)
BfsExpand(st, current, nbrs, i) ==
  IF i > Len(nbrs) THEN st
  ELSE LET n == nbrs[i]
       IN IF n \notin blocked /\ n \notin st.vis
          THEN CHOOSE r \in {BfsExpand(x, current, nbrs, i + 1) : x \in {
                    [q |-> Append(st.q, n), vis |-> st.vis \cup {n},
                          cnt |-> st.cnt + 1, par |-> [st.par EXCEPT ![n] = current]]}} : TRUE
          ELSE BfsExpand(st, current, nbrs, i + 1)

\* bfs.search, lines 31-44
BfsCall ==
  /\ Enter
  /\ alg' = "bfs" /\ param' = 0
  /\ g' = ResetG /\ h' = ResetH /\ parent' = ResetParent
  /\ IF InSeq(cell, goals)
     THEN /\ pc' = "done"
          /\ result' = PathResult(<< >>, cell, 1)
          /\ UNCHANGED <<open_list, visited, count>>
     ELSE /\ pc' = "loop"
          /\ result' = NoResult
          /\ open_list' = <<cell>>
          /\ visited' = {cell}
          /\ count' = 1
  /\ expanded' = {}
  /\ UNCHANGED <<gridVars, allVars, drvVars, agentVars, open_list_goal, closed_set_goal, goal,
                 depth, frames, traceVars>>

\* BfsStep taking the newest cell of the queue, queue.pop(), for queue.popleft()
BfsStep_PopNewest ==
  /\ pc = "loop" /\ alg = "bfs"
  /\ open_list # << >>
  /\ LET current == open_list[Len(open_list)]
         rest == SubSeq(open_list, 1, Len(open_list) - 1)
     IN IF InSeq(current, goals)
        THEN /\ EnterTrace(<<Job(current, TRUE)>>, "", current)
             /\ open_list' = rest
             /\ UNCHANGED <<cellVars, visited, count, expanded>>
        ELSE \E st \in {BfsExpand([q |-> rest, vis |-> visited,
                                  cnt |-> count, par |-> parent],
                                 current, get_neighbors(current, FALSE), 1)} :
                /\ open_list' = st.q
                /\ visited' = st.vis
                /\ count' = st.cnt
                /\ parent' = st.par
                /\ expanded' = {current}
                /\ UNCHANGED <<g, h, pc, traceVars, result, histVars>>
  /\ UNCHANGED <<gridVars, allVars, drvVars, agentVars, callVars, open_list_goal, closed_set_goal,
                 goal, depth, frames>>

\* bfs.search, one iteration of `while queue:` (lines 46-67)
BfsStep ==
  /\ pc = "loop" /\ alg = "bfs"
  /\ open_list # << >>
  /\ LET current == Head(open_list)
     IN IF InSeq(current, goals)
        THEN /\ EnterTrace(<<Job(current, TRUE)>>, "", current)
             /\ open_list' = Tail(open_list)
             /\ UNCHANGED <<cellVars, visited, count, expanded>>
        ELSE \E st \in {BfsExpand([q |-> Tail(open_list), vis |-> visited,
                                  cnt |-> count, par |-> parent],
                                 current, get_neighbors(current, FALSE), 1)} :
                /\ open_list' = st.q
                /\ visited' = st.vis
                /\ count' = st.cnt
                /\ parent' = st.par
                /\ expanded' = {current}
                /\ UNCHANGED <<g, h, pc, traceVars, result, histVars>>
  /\ UNCHANGED <<gridVars, allVars, drvVars, agentVars, callVars, open_list_goal, closed_set_goal,
                 goal, depth, frames>>

\* `while queue:` fails: return count (bfs 71, dfs 71, astar 95, greedy 80, beam 57)
Exhausted ==
  /\ pc = "loop"
  /\ alg \in {"bfs", "dfs", "astar", "greedy", "beam"}
  /\ open_list = << >>
  /\ Return(IntResult(count))
  /\ UNCHANGED <<gridVars, allVars, drvVars, cellVars, agentVars, callVars, loopVars, traceVars>>

\* -------------------------------------------------- algorithms/dfs.py
RECURSIVE DfsExpand(_, _, _, _)
DfsExpand(st, current, nbrs, i) ==
  IF i > Len(nbrs) THEN st
  ELSE LET n == nbrs[i]
       IN IF n \notin blocked /\ n \notin st.vis
          THEN CHOOSE r \in {DfsExpand(x, current, nbrs, i + 1) : x \in {
                    [q |-> Append(st.q, n), vis |-> st.vis \cup {n},
                          cnt |-> st.cnt + 1, par |-> [st.par EXCEPT ![n] = current]]}} : TRUE
          ELSE DfsExpand(st, current, nbrs, i + 1)

\* dfs.search, lines 31-44
DfsCall ==
  /\ Enter
  /\ alg' = "dfs" /\ param' = 0
  /\ g' = ResetG /\ h' = ResetH /\ parent' = ResetParent
  /\ IF InSeq(cell, goals)
     THEN /\ pc' = "done"
          /\ result' = PathResult(<< >>, cell, 1)
          /\ UNCHANGED <<open_list, visited, count>>
     ELSE /\ pc' = "loop"
          /\ result' = NoResult
          /\ open_list' = <<cell>>
          /\ visited' = {cell}
          /\ count' = 1
  /\ expanded' = {}
  /\ UNCHANGED <<gridVars, allVars, drvVars, agentVars, open_list_goal, closed_set_goal, goal,
                 depth, frames, traceVars>>

\* DfsStep pushing the neighbors in the order of get_neighbors, without [::-1]
DfsStep_Forward ==
  /\ pc = "loop" /\ alg = "dfs"
  /\ open_list # << >>
  /\ LET current == open_list[Len(open_list)]
         rest == SubSeq(open_list, 1, Len(open_list) - 1)
     IN IF InSeq(current, goals)
        THEN /\ EnterTrace(<<Job(current, TRUE)>>, "", current)
             /\ open_list' = rest
             /\ UNCHANGED <<cellVars, visited, count, expanded>>
        ELSE \E st \in {DfsExpand([q |-> rest, vis |-> visited,
                                  cnt |-> count, par |-> parent],
                                 current, get_neighbors(current, FALSE), 1)} :
                /\ open_list' = st.q
                /\ visited' = st.vis
                /\ count' = st.cnt
                /\ parent' = st.par
                /\ expanded' = {current}
                /\ UNCHANGED <<g, h, pc, traceVars, result, histVars>>
  /\ UNCHANGED <<gridVars, allVars, drvVars, agentVars, callVars, open_list_goal, closed_set_goal,
                 goal, depth, frames>>

\* dfs.search, one iteration of `while stack:` (lines 46-67)
DfsStep ==
  /\ pc = "loop" /\ alg = "dfs"
  /\ open_list # << >>
  /\ LET current == open_list[Len(open_list)]
         rest == SubSeq(open_list, 1, Len(open_list) - 1)
     IN IF InSeq(current, goals)
        THEN /\ EnterTrace(<<Job(current, TRUE)>>, "", current)
             /\ open_list' = rest
             /\ UNCHANGED <<cellVars, visited, count, expanded>>
        ELSE \E st \in {DfsExpand([q |-> rest, vis |-> visited,
                                  cnt |-> count, par |-> parent],
                                 current, Reverse(get_neighbors(current, FALSE)), 1)} :
                /\ open_list' = st.q
                /\ visited' = st.vis
                /\ count' = st.cnt
                /\ parent' = st.par
                /\ expanded' = {current}
                /\ UNCHANGED <<g, h, pc, traceVars, result, histVars>>
  /\ UNCHANGED <<gridVars, allVars, drvVars, agentVars, callVars, open_list_goal, closed_set_goal,
                 goal, depth, frames>>

\* ------------------------------------------------ algorithms/astar.py
\* the for loop over the neighbors of current (lines 70-93); closed is
\* closed_set, which the loop does not change.  The state after a neighbor is
\* bound by x, so that it is computed once before the loop goes on.
RECURSIVE AstarExpand(_, _, _, _, _)
RECURSIVE AstarExpand_KeepsParent(_, _, _, _, _)

\* AstarExpand lowering the g of a frontier cell without giving it the cell
\* being expanded as parent (line 91 left out)
AstarExpand_KeepsParent(st, current, closed, nbrs, i) ==
  IF i > Len(nbrs) THEN st
  ELSE LET n == nbrs[i]
           tentative_g == st.g[current] + 1
       IN IF n \in blocked \/ n \in closed
          THEN AstarExpand_KeepsParent(st, current, closed, nbrs, i + 1)
          ELSE IF ~InSeq(n, st.q)
          THEN LET g1 == [st.g EXCEPT ![n] = tentative_g]
                   h1 == [st.h EXCEPT ![n] = manhattan_distance(n, goal)]
               IN CHOOSE r \in {AstarExpand_KeepsParent(x, current, closed, nbrs, i + 1) : x \in {
                    [q |-> PushF(g1, h1, st.q, n), cnt |-> st.cnt + 1,
                               g |-> g1, h |-> h1,
                               par |-> [st.par EXCEPT ![n] = current]]}} : TRUE
          ELSE IF tentative_g < st.g[n]
          THEN LET g1 == [st.g EXCEPT ![n] = tentative_g]
               IN CHOOSE r \in {AstarExpand_KeepsParent(x, current, closed, nbrs, i + 1) : x \in {
                    [st EXCEPT !.g = g1,
                                         !.q = HeapifyF(g1, st.h, st.q)]}} : TRUE
          ELSE AstarExpand_KeepsParent(st, current, closed, nbrs, i + 1)

AstarExpand(st, current, closed, nbrs, i) ==
  IF i > Len(nbrs) THEN st
  ELSE LET n == nbrs[i]
           tentative_g == st.g[current] + 1
       IN IF n \in blocked \/ n \in closed
          THEN AstarExpand(st, current, closed, nbrs, i + 1)
          ELSE IF ~InSeq(n, st.q)
          THEN LET g1 == [st.g EXCEPT ![n] = tentative_g]
                   h1 == [st.h EXCEPT ![n] = manhattan_distance(n, goal)]
               IN CHOOSE r \in {AstarExpand(x, current, closed, nbrs, i + 1) : x \in {
                    [q |-> PushF(g1, h1, st.q, n), cnt |-> st.cnt + 1,
                               g |-> g1, h |-> h1,
                               par |-> [st.par EXCEPT ![n] = current]]}} : TRUE
          ELSE IF tentative_g < st.g[n]
          THEN LET g1 == [st.g EXCEPT ![n] = tentative_g]
               IN CHOOSE r \in {AstarExpand(x, current, closed, nbrs, i + 1) : x \in {
                    [st EXCEPT !.g = g1,
                                         !.par = [st.par EXCEPT ![n] = current],
                                         !.q = HeapifyF(g1, st.h, st.q)]}} : TRUE
          ELSE AstarExpand(st, current, closed, nbrs, i + 1)

\* AstarCall with count = 0 for count = 1: the start cell is not counted
AstarCall_StartUncounted ==
  /\ Enter
  /\ alg' = "astar" /\ param' = 0
  /\ g' = ResetG /\ parent' = ResetParent
  /\ IF InSeq(cell, goals)
     THEN /\ pc' = "done"
          /\ result' = PathResult(<< >>, cell, 1)
          /\ h' = ResetH
          /\ UNCHANGED <<open_list, visited, count, goal>>
     ELSE /\ pc' = "loop"
          /\ result' = NoResult
          /\ goal' = get_nearest_goal
          /\ h' = [ResetH EXCEPT ![cell] = manhattan_distance(cell, goal')]
          /\ open_list' = <<cell>>
          /\ visited' = {}
          /\ count' = 0
  /\ expanded' = {}
  /\ UNCHANGED <<gridVars, allVars, drvVars, agentVars, open_list_goal, closed_set_goal,
                 depth, frames, traceVars>>

\* astar.search, lines 31-52
AstarCall ==
  /\ Enter
  /\ alg' = "astar" /\ param' = 0
  /\ g' = ResetG /\ parent' = ResetParent
  /\ IF InSeq(cell, goals)
     THEN /\ pc' = "done"
          /\ result' = PathResult(<< >>, cell, 1)
          /\ h' = ResetH
          /\ UNCHANGED <<open_list, visited, count, goal>>
     ELSE /\ pc' = "loop"
          /\ result' = NoResult
          /\ goal' = get_nearest_goal
          /\ h' = [ResetH EXCEPT ![cell] = manhattan_distance(cell, goal')]
          /\ open_list' = <<cell>>
          /\ visited' = {}
          /\ count' = 1
  /\ expanded' = {}
  /\ UNCHANGED <<gridVars, allVars, drvVars, agentVars, open_list_goal, closed_set_goal,
                 depth, frames, traceVars>>

\* astar.search, one iteration of `while open_list:` (lines 54-93)
AstarStep ==
  /\ pc = "loop" /\ alg = "astar"
  /\ open_list # << >>
  /\ LET current == open_list[1]
         rest == PopF(g, h, open_list)
     IN /\ visited' = visited \cup {current}
        /\ IF InSeq(current, goals)
           THEN /\ EnterTrace(<<Job(current, TRUE)>>, "", current)
                /\ open_list' = rest
                /\ UNCHANGED <<cellVars, count, expanded>>
           ELSE \E st \in {AstarExpand([q |-> rest, cnt |-> count, g |-> g, h |-> h,
                                       par |-> parent],
                                      current, visited \cup {current}, get_neighbors(current, FALSE), 1)} :
                   /\ open_list' = st.q
                   /\ count' = st.cnt
                   /\ g' = st.g /\ h' = st.h /\ parent' = st.par
                   /\ expanded' = {current}
                   /\ UNCHANGED <<pc, traceVars, result, histVars>>
  /\ UNCHANGED <<gridVars, allVars, drvVars, agentVars, callVars, open_list_goal, closed_set_goal,
                 goal, depth, frames>>

\* ----------------------------------------------- algorithms/greedy.py
\* open_list holds tuples (h, cell); tuples compare by h, then by Cell.__lt__
KeyH(gg, hh, s) ==
  [i \in 1..Len(s) |-> [k |-> <<s[i][1], F(gg, hh, s[i][2])>>, it |-> s[i]]]
PushH(gg, hh, s, item) ==
  Items(heappush(KeyH(gg, hh, s), [k |-> <<item[1], F(gg, hh, item[2])>>, it |-> item]))
PopH(gg, hh, s) == Items(heappop(KeyH(gg, hh, s)))

\* [cell for _, cell in open_list]
HeapCells(s) == [i \in 1..Len(s) |-> s[i][2]]

\* the for loop over the neighbors of current (lines 68-78)
RECURSIVE GreedyExpand(_, _, _, _, _)
RECURSIVE GreedyExpand_Reparent(_, _, _, _, _)

\* GreedyExpand giving a neighbor that is already in the open list the cell
\* being expanded as parent
GreedyExpand_Reparent(st, current, closed, nbrs, i) ==
  IF i > Len(nbrs) THEN st
  ELSE LET n == nbrs[i]
       IN IF n \in blocked \/ n \in closed
          THEN GreedyExpand_Reparent(st, current, closed, nbrs, i + 1)
          ELSE IF ~InSeq(n, HeapCells(st.q))
          THEN LET h1 == [st.h EXCEPT ![n] = manhattan_distance(n, goal)]
               IN CHOOSE r \in {GreedyExpand_Reparent(x, current, closed, nbrs, i + 1) : x \in {
                    [q |-> PushH(g, h1, st.q, <<h1[n], n>>),
                                cnt |-> st.cnt + 1, h |-> h1,
                                par |-> [st.par EXCEPT ![n] = current]]}} : TRUE
          ELSE CHOOSE r \in {GreedyExpand_Reparent(x, current, closed, nbrs, i + 1) : x \in {
                    [st EXCEPT !.par = [st.par EXCEPT ![n] = current]]}} : TRUE

GreedyExpand(st, current, closed, nbrs, i) ==
  IF i > Len(nbrs) THEN st
  ELSE LET n == nbrs[i]
       IN IF n \in blocked \/ n \in closed
          THEN GreedyExpand(st, current, closed, nbrs, i + 1)
          ELSE IF ~InSeq(n, HeapCells(st.q))
          THEN LET h1 == [st.h EXCEPT ![n] = manhattan_distance(n, goal)]
               IN CHOOSE r \in {GreedyExpand(x, current, closed, nbrs, i + 1) : x \in {
                    [q |-> PushH(g, h1, st.q, <<h1[n], n>>),
                                cnt |-> st.cnt + 1, h |-> h1,
                                par |-> [st.par EXCEPT ![n] = current]]}} : TRUE
          ELSE GreedyExpand(st, current, closed, nbrs, i + 1)

\* greedy.search, lines 31-52
GreedyCall ==
  /\ Enter
  /\ alg' = "greedy" /\ param' = 0
  /\ g' = ResetG /\ parent' = ResetParent
  /\ IF InSeq(cell, goals)
     THEN /\ pc' = "done"
          /\ result' = PathResult(<< >>, cell, 1)
          /\ h' = ResetH
          /\ UNCHANGED <<open_list, visited, count, goal>>
     ELSE /\ pc' = "loop"
          /\ result' = NoResult
          /\ goal' = get_nearest_goal
          /\ h' = [ResetH EXCEPT ![cell] = manhattan_distance(cell, goal')]
          /\ open_list' = <<<<h'[cell], cell>>>>
          /\ visited' = {}
          /\ count' = 1
  /\ expanded' = {}
  /\ UNCHANGED <<gridVars, allVars, drvVars, agentVars, open_list_goal, closed_set_goal,
                 depth, frames, traceVars>>

\* greedy.search, one iteration of `while open_list:` (lines 54-78)
GreedyStep ==
  /\ pc = "loop" /\ alg = "greedy"
  /\ open_list # << >>
  /\ LET current == open_list[1][2]
         rest == PopH(g, h, open_list)
     IN /\ visited' = visited \cup {current}
        /\ IF InSeq(current, goals)
           THEN /\ EnterTrace(<<Job(current, TRUE)>>, "", current)
                /\ open_list' = rest
                /\ UNCHANGED <<cellVars, count, expanded>>
           ELSE \E st \in {GreedyExpand([q |-> rest, cnt |-> count, h |-> h,
                                        par |-> parent],
                                       current, visited \cup {current}, get_neighbors(current, FALSE), 1)} :
                   /\ open_list' = st.q
                   /\ count' = st.cnt
                   /\ h' = st.h /\ parent' = st.par
                   /\ expanded' = {current}
                   /\ UNCHANGED <<g, pc, traceVars, result, histVars>>
  /\ UNCHANGED <<gridVars, allVars, drvVars, agentVars, callVars, open_list_goal, closed_set_goal,
                 goal, depth, frames>>

\* ------------------------------------------------- algorithms/beam.py
DefaultBeamWidth == 2
MaxBeamWidth == 2
BeamWidths == 1..MaxBeamWidth

\* min(open_list, key=f): position of the first cell of least f
MinIndex(gg, hh, s) ==
  CHOOSE i \in 1..Len(s) :
    /\ \A j \in 1..Len(s) : F(gg, hh, s[i]) <= F(gg, hh, s[j])
    /\ \A j \in 1..(i - 1) : F(gg, hh, s[j]) > F(gg, hh, s[i])

RemoveAt(s, i) == SubSeq(s, 1, i - 1) \o SubSeq(s, i + 1, Len(s))

\* sorted(open_list, key=f): stable
RECURSIVE SortedByF(_, _, _)
SortedByF(gg, hh, s) ==
  IF s = << >> THEN << >>
  ELSE LET i == MinIndex(gg, hh, s)
       IN <<s[i]>> \o SortedByF(gg, hh, RemoveAt(s, i))

Take(s, n) == SubSeq(s, 1, IF n < Len(s) THEN n ELSE Len(s))

\* the for loop over the neighbors of current (lines 42-53)
RECURSIVE BeamExpand(_, _, _, _, _)
BeamExpand(st, current, closed, nbrs, i) ==
  IF i > Len(nbrs) THEN st
  ELSE LET n == nbrs[i]
       IN IF n \in blocked \/ n \in closed
          THEN BeamExpand(st, current, closed, nbrs, i + 1)
          ELSE IF ~InSeq(n, st.q)
          THEN CHOOSE r \in {BeamExpand(x, current, closed, nbrs, i + 1) : x \in {
                    [st EXCEPT !.q = Append(st.q, n),
                                     !.cnt = st.cnt + 1,
                                     !.h = [st.h EXCEPT ![n] = manhattan_distance(n, goal)],
                                     !.par = [st.par EXCEPT ![n] = current]]}} : TRUE
          ELSE IF st.g[current] + 1 < st.g[n]
          THEN CHOOSE r \in {BeamExpand(x, current, closed, nbrs, i + 1) : x \in {
                    [st EXCEPT !.g = [st.g EXCEPT ![n] = st.g[current] + 1],
                                     !.par = [st.par EXCEPT ![n] = current]]}} : TRUE
          ELSE BeamExpand(st, current, closed, nbrs, i + 1)

\* beam.search, lines 21-27: no Grid.reset(), no test of the start cell
BeamCall ==
  /\ Enter
  /\ alg' = "beam" /\ param' \in BeamWidths
  /\ pc' = "loop"
  /\ result' = NoResult
  /\ goal' = get_nearest_goal
  /\ open_list' = <<cell>>
  /\ visited' = {}
  /\ count' = 1
  /\ expanded' = {}
  /\ UNCHANGED <<gridVars, allVars, drvVars, cellVars, agentVars, open_list_goal, closed_set_goal,
                 depth, frames, traceVars>>

\* BeamStep sorting the open list without cutting it to beam_width cells
BeamStep_NoCut ==
  /\ pc = "loop" /\ alg = "beam"
  /\ open_list # << >>
  /\ LET i == MinIndex(g, h, open_list)
         current == open_list[i]
         rest == RemoveAt(open_list, i)
     IN /\ visited' = visited \cup {current}
        /\ IF InSeq(current, goals)
           THEN /\ EnterTrace(<<Job(current, TRUE)>>, "", current)
                /\ open_list' = rest
                /\ UNCHANGED <<cellVars, count, expanded>>
           ELSE \E st \in {BeamExpand([q |-> rest, cnt |-> count, g |-> g, h |-> h,
                                      par |-> parent],
                                     current, visited \cup {current}, get_neighbors(current, FALSE), 1)} :
                   /\ open_list' = SortedByF(st.g, st.h, st.q)
                   /\ cut' = cut \cup {c \in Cells : InSeq(c, st.q) /\ ~InSeq(c, open_list')}
                   /\ count' = st.cnt
                   /\ g' = st.g /\ h' = st.h /\ parent' = st.par
                   /\ expanded' = {current}
                   /\ UNCHANGED <<pc, traceVars, result, runs, agents, last, prev>>
  /\ UNCHANGED <<gridVars, allVars, drvVars, agentVars, callVars, open_list_goal, closed_set_goal,
                 goal, depth, frames>>

\* beam.search, one iteration of `while open_list:` (lines 29-55)
BeamStep ==
  /\ pc = "loop" /\ alg = "beam"
  /\ open_list # << >>
  /\ LET i == MinIndex(g, h, open_list)
         current == open_list[i]
         rest == RemoveAt(open_list, i)
     IN /\ visited' = visited \cup {current}
        /\ IF InSeq(current, goals)
           THEN /\ EnterTrace(<<Job(current, TRUE)>>, "", current)
                /\ open_list' = rest
                /\ UNCHANGED <<cellVars, count, expanded>>
           ELSE \E st \in {BeamExpand([q |-> rest, cnt |-> count, g |-> g, h |-> h,
                                      par |-> parent],
                                     current, visited \cup {current}, get_neighbors(current, FALSE), 1)} :
                   /\ open_list' = Take(SortedByF(st.g, st.h, st.q), param)
                   /\ cut' = cut \cup {c \in Cells : InSeq(c, st.q) /\ ~InSeq(c, open_list')}
                   /\ count' = st.cnt
                   /\ g' = st.g /\ h' = st.h /\ parent' = st.par
                   /\ expanded' = {current}
                   /\ UNCHANGED <<pc, traceVars, result, runs, agents, last, prev>>
  /\ UNCHANGED <<gridVars, allVars, drvVars, agentVars, callVars, open_list_goal, closed_set_goal,
                 goal, depth, frames>>

\* ---------------------------------------- algorithms/bidirectional.py
\* a Direction member put in the path as it is (not its .value)
EnumToken(dir) ==
  IF dir = "up" THEN "Direction.UP"
  ELSE IF dir = "left" THEN "Direction.LEFT"
  ELSE IF dir = "down" THEN "Direction.DOWN"
  ELSE "Direction.RIGHT"

\* the for loop over the neighbors of current_start (lines 77-104);
\* st.meet is the neighbor at which the loop returned a path, or None
RECURSIVE BiExpandStart(_, _, _, _, _)
BiExpandStart(st, current, closed, nbrs, i) ==
  IF i > Len(nbrs) \/ st.meet # None THEN st
  ELSE LET n == nbrs[i]
           tentative_g == st.g[current] + 1
       IN IF n \in blocked \/ n \in closed
          THEN BiExpandStart(st, current, closed, nbrs, i + 1)
          ELSE IF ~InSeq(n, st.q)
          THEN IF st.par[n] # None
               THEN [st EXCEPT !.meet = n]
               ELSE LET g1 == [st.g EXCEPT ![n] = tentative_g]
                        h1 == [st.h EXCEPT ![n] = manhattan_distance(n, goal)]
                    IN CHOOSE r \in {BiExpandStart(x, current, closed, nbrs, i + 1) : x \in {
                    [st EXCEPT !.q = PushF(g1, h1, st.q, n),
                                                !.cnt = st.cnt + 1,
                                                !.g = g1, !.h = h1,
                                                !.par = [st.par EXCEPT ![n] = current]]}} : TRUE
          ELSE IF tentative_g < st.g[n]
          THEN LET g1 == [st.g EXCEPT ![n] = tentative_g]
               IN CHOOSE r \in {BiExpandStart(x, current, closed, nbrs, i + 1) : x \in {
                    [st EXCEPT !.g = g1,
                                           !.par = [st.par EXCEPT ![n] = current],
                                           !.q = HeapifyF(g1, st.h, st.q)]}} : TRUE
          ELSE BiExpandStart(st, current, closed, nbrs, i + 1)

\* the for loop over the neighbors of current_goal (lines 106-130)
RECURSIVE BiExpandGoal(_, _, _, _, _)
BiExpandGoal(st, current, closed, nbrs, i) ==
  IF i > Len(nbrs) \/ st.meet # None THEN st
  ELSE LET n == nbrs[i]
           tentative_g == st.g[current] + 1
       IN IF n \in blocked \/ n \in closed
          THEN BiExpandGoal(st, current, closed, nbrs, i + 1)
          ELSE IF ~InSeq(n, st.q)
          THEN IF st.par[n] # None
               THEN [st EXCEPT !.cnt = st.cnt + 1, !.meet = n]
               ELSE LET g1 == [st.g EXCEPT ![n] = tentative_g]
                        h1 == [st.h EXCEPT ![n] = manhattan_distance(n, cell)]
                    IN CHOOSE r \in {BiExpandGoal(x, current, closed, nbrs, i + 1) : x \in {
                    [st EXCEPT !.q = PushF(g1, h1, st.q, n),
                                               !.cnt = st.cnt + 1,
                                               !.g = g1, !.h = h1,
                                               !.par = [st.par EXCEPT ![n] = current]]}} : TRUE
          ELSE IF tentative_g < st.g[n]
          THEN LET g1 == [st.g EXCEPT ![n] = tentative_g]
               IN CHOOSE r \in {BiExpandGoal(x, current, closed, nbrs, i + 1) : x \in {
                    [st EXCEPT !.g = g1,
                                          !.par = [st.par EXCEPT ![n] = current],
                                          !.q = HeapifyF(g1, st.h, st.q)]}} : TRUE
          ELSE BiExpandGoal(st, current, closed, nbrs, i + 1)

\* bidirectional.search, lines 31-59
BiCall ==
  /\ Enter
  /\ alg' = "bidirectional" /\ param' = 0
  /\ g' = ResetG /\ parent' = ResetParent
  /\ IF InSeq(cell, goals)
     THEN /\ pc' = "done"
          /\ result' = PathResult(<< >>, cell, 1)
          /\ h' = ResetH
          /\ UNCHANGED <<open_list, open_list_goal, visited, closed_set_goal, count, goal>>
     ELSE /\ pc' = "loop"
          /\ result' = NoResult
          /\ goal' = get_nearest_goal
          /\ h' = [ResetH EXCEPT ![cell] = manhattan_distance(cell, goal')]
          /\ open_list' = <<cell>>
          /\ open_list_goal' = <<goal'>>
          /\ visited' = {}
          /\ closed_set_goal' = {}
          /\ count' = 1
  /\ expanded' = {}
  /\ UNCHANGED <<gridVars, allVars, drvVars, agentVars, depth, frames, traceVars>>

\* bidirectional.search, one iteration of the while loop (lines 61-130)
BiStep ==
  /\ pc = "loop" /\ alg = "bidirectional"
  /\ open_list # << >> /\ open_list_goal # << >>
  /\ LET current_start == open_list[1]
         current_goal == open_list_goal[1]
         rest_start == PopF(g, h, open_list)
         rest_goal == PopF(g, h, open_list_goal)
     IN /\ visited' = visited \cup {current_start}
        /\ closed_set_goal' = closed_set_goal \cup {current_goal}
        /\ \E s1 \in {BiExpandStart([q |-> rest_start, cnt |-> count, g |-> g, h |-> h,
                                     par |-> parent, meet |-> None],
                                    current_start, visited \cup {current_start},
                                    get_neighbors(current_start, FALSE), 1)} :
             IF s1.meet # None
             THEN /\ EnterTrace(<<Job(current_start, TRUE), Job(s1.meet, FALSE)>>,
                                EnumToken(CellSub(current_start, s1.meet)), goal)
                  /\ open_list' = s1.q
                  /\ open_list_goal' = rest_goal
                  /\ count' = s1.cnt
                  /\ g' = s1.g /\ h' = s1.h /\ parent' = s1.par
                  /\ expanded' = {current_start}
             ELSE \E s2 \in {BiExpandGoal([q |-> rest_goal, cnt |-> s1.cnt, g |-> s1.g,
                                           h |-> s1.h, par |-> s1.par, meet |-> None],
                                          current_goal, closed_set_goal \cup {current_goal},
                                          get_neighbors(current_goal, FALSE), 1)} :
                    /\ open_list' = s1.q
                    /\ open_list_goal' = s2.q
                    /\ count' = s2.cnt
                    /\ g' = s2.g /\ h' = s2.h /\ parent' = s2.par
                    /\ expanded' = {current_start, current_goal}
                    /\ IF s2.meet # None
                       THEN EnterTrace(<<Job(s2.meet, TRUE), Job(current_goal, FALSE)>>,
                                       EnumToken(CellSub(s2.meet, current_goal)), goal)
                       ELSE UNCHANGED <<pc, traceVars, result, histVars>>
  /\ UNCHANGED <<gridVars, allVars, drvVars, agentVars, callVars, goal, depth, frames>>

\* the while condition of bidirectional.search fails: return count (line 132)
BiExhausted ==
  /\ pc = "loop" /\ alg = "bidirectional"
  /\ (open_list = << >> \/ open_list_goal = << >>)
  /\ Return(IntResult(count))
  /\ UNCHANGED <<gridVars, allVars, drvVars, cellVars, agentVars, callVars, loopVars, traceVars>>

\* ------------------------------------------------ algorithms/iddfs.py
DefaultLimit == 100000
SmallLimit == 4
MinLimit == 1
Limits == {MinLimit, SmallLimit, DefaultLimit}

\* frames is the recursion stack of dls, outermost call first.  A frame is
\* [cur, md, i]: the arguments current and max_depth of the call and the
\* position in get_neighbors(current) of the neighbor its for loop is at.
\* A state with pc = "dls" is the entry of the call on top of the stack.
Frame(c, md, i) == [cur |-> c, md |-> md, i |-> i]

RECURSIVE DlsLoop(_, _, _, _)
RECURSIVE DlsFail(_, _, _)

\* DlsLoop without `if count >= limit: return` (lines 54-58): the limit is
\* not looked at
DlsLoop_NoLimit(fr, vis, cnt, i) ==
  LET top == fr[Len(fr)]
      nbrs == get_neighbors(top.cur, FALSE)
  IN IF i > Len(nbrs) THEN DlsFail(fr, vis, cnt)
     ELSE IF nbrs[i] \in blocked \/ nbrs[i] \in vis THEN DlsLoop(fr, vis, cnt, i + 1)
     ELSE [status |-> "call",
           frames |-> Append([fr EXCEPT ![Len(fr)].i = i], Frame(nbrs[i], top.md - 1, 0)),
           vis |-> vis \cup {nbrs[i]},
           cnt |-> cnt + 1]

\* dls, the for loop of the top frame from its i-th neighbor on (lines 53-76),
\* up to the next recursive call or the return of the outermost call
DlsLoop(fr, vis, cnt, i) ==
  LET top == fr[Len(fr)]
      nbrs == get_neighbors(top.cur, FALSE)
  IN IF i > Len(nbrs) THEN DlsFail(fr, vis, cnt)
     ELSE IF cnt >= param THEN DlsFail(fr, vis, cnt)
     ELSE IF nbrs[i] \in blocked \/ nbrs[i] \in vis THEN DlsLoop(fr, vis, cnt, i + 1)
     ELSE [status |-> "call",
           frames |-> Append([fr EXCEPT ![Len(fr)].i = i], Frame(nbrs[i], top.md - 1, 0)),
           vis |-> vis \cup {nbrs[i]},
           cnt |-> cnt + 1]

\* DlsFail whose caller leaves the neighbor in visited (no line 76)
DlsFail_KeepsVisited(fr, vis, cnt) ==
  IF Len(fr) = 1
  THEN [status |-> "fail", frames |-> << >>, vis |-> vis, cnt |-> cnt]
  ELSE LET rest == SubSeq(fr, 1, Len(fr) - 1)
       IN DlsLoop(rest, vis, cnt, rest[Len(rest)].i + 1)

\* dls, the top frame returns {'success': False, 'count': count}; its caller
\* removes the neighbor from visited and goes on with its for loop
DlsFail(fr, vis, cnt) ==
  IF Len(fr) = 1
  THEN [status |-> "fail", frames |-> << >>, vis |-> vis, cnt |-> cnt]
  ELSE LET rest == SubSeq(fr, 1, Len(fr) - 1)
       IN DlsLoop(rest, vis \ {fr[Len(fr)].cur}, cnt, rest[Len(rest)].i + 1)

\* dls returned success through every frame: neighbor.parent = current (line 70)
SuccessParents(par, fr) ==
  [c \in DOMAIN par |->
     IF \E j \in 2..Len(fr) : fr[j].cur = c
     THEN fr[(CHOOSE j \in 2..Len(fr) : fr[j].cur = c) - 1].cur
     ELSE par[c]]

\* iddfs.search, lines 101-112, up to the entry of dls for depth 0
IddfsCall ==
  /\ Enter
  /\ alg' = "iddfs" /\ param' \in Limits
  /\ g' = ResetG /\ h' = ResetH /\ parent' = ResetParent
  /\ pc' = "dls"
  /\ result' = NoResult
  /\ count' = 1
  /\ depth' = 0
  /\ visited' = {cell}
  /\ frames' = <<Frame(cell, 0, 0)>>
  /\ expanded' = {}
  /\ UNCHANGED <<gridVars, allVars, drvVars, agentVars, open_list, open_list_goal, closed_set_goal,
                 goal, traceVars>>

\* DlsStep with `for depth in range(max_depth)`: the depth net_area is not tried
DlsStep_Shallow ==
  /\ pc = "dls"
  /\ LET top == frames[Len(frames)]
     IN IF InSeq(top.cur, goals)
        THEN /\ parent' = SuccessParents(parent, frames)
             /\ frames' = << >>
             /\ EnterTrace(<<Job(top.cur, TRUE)>>, "", top.cur)
             /\ UNCHANGED <<g, h, visited, count, depth, expanded>>
        ELSE \E r \in {IF top.md <= 0 THEN DlsFail(frames, visited, count)
                       ELSE DlsLoop(frames, visited, count, 1)} :
               /\ count' = r.cnt
               /\ expanded' = IF top.md <= 0 THEN {} ELSE {top.cur}
               /\ IF r.status = "call"
                  THEN /\ frames' = r.frames
                       /\ visited' = r.vis
                       /\ UNCHANGED <<depth, pc, result, histVars>>
                  ELSE IF depth < net_area - 1
                  THEN /\ depth' = depth + 1
                       /\ visited' = {cell}
                       /\ frames' = <<Frame(cell, depth + 1, 0)>>
                       /\ UNCHANGED <<pc, result, histVars>>
                  ELSE /\ Return(IntResult(r.cnt))
                       /\ frames' = << >>
                       /\ visited' = r.vis
                       /\ UNCHANGED depth
               /\ UNCHANGED <<cellVars, traceVars>>
  /\ UNCHANGED <<gridVars, allVars, drvVars, agentVars, callVars, open_list, open_list_goal,
                 closed_set_goal, goal>>

\* the body of the dls call on top of the stack, up to the entry of the next
\* dls call (lines 39-81), with the for loop of search between two outermost
\* calls (lines 108-122)
DlsStep ==
  /\ pc = "dls"
  /\ LET top == frames[Len(frames)]
     IN IF InSeq(top.cur, goals)
        THEN /\ parent' = SuccessParents(parent, frames)
             /\ frames' = << >>
             /\ EnterTrace(<<Job(top.cur, TRUE)>>, "", top.cur)
             /\ UNCHANGED <<g, h, visited, count, depth, expanded>>
        ELSE \E r \in {IF top.md <= 0 THEN DlsFail(frames, visited, count)
                       ELSE DlsLoop(frames, visited, count, 1)} :
               /\ count' = r.cnt
               /\ expanded' = IF top.md <= 0 THEN {} ELSE {top.cur}
               /\ IF r.status = "call"
                  THEN /\ frames' = r.frames
                       /\ visited' = r.vis
                       /\ UNCHANGED <<depth, pc, result, histVars>>
                  ELSE IF depth < net_area
                  THEN /\ depth' = depth + 1
                       /\ visited' = {cell}
                       /\ frames' = <<Frame(cell, depth + 1, 0)>>
                       /\ UNCHANGED <<pc, result, histVars>>
                  ELSE /\ Return(IntResult(r.cnt))
                       /\ frames' = << >>
                       /\ visited' = r.vis
                       /\ UNCHANGED depth
               /\ UNCHANGED <<cellVars, traceVars>>
  /\ UNCHANGED <<gridVars, allVars, drvVars, agentVars, callVars, open_list, open_list_goal,
                 closed_set_goal, goal>>

\* ====================================================== search_all
\* list.remove(x): the first occurrence of x leaves the list
RECURSIVE Remove(_, _)
Remove(s, x) ==
  IF s = << >> THEN << >>
  ELSE IF Head(s) = x THEN Tail(s)
  ELSE <<Head(s)>> \o Remove(Tail(s), x)

\* Agent.trace_path, the whole while loop on the parent links par.  A chain
\* of parents that has not ended after as many links as the grid has cells is
\* on a cycle: the loop never ends, ok is FALSE.
RECURSIVE TraceLoop(_, _, _, _, _)

\* TraceLoop with path.append for path.insert(0, ...) when backward
TraceLoop_Append(par, c, backward, acc, fuel) ==
  IF par[c] = None THEN [ok |-> TRUE, path |-> acc]
  ELSE IF fuel = 0 THEN [ok |-> FALSE, path |-> acc]
  ELSE LET p == par[c]
           distance == manhattan_distance(c, p)
       IN TraceLoop(par, p, backward,
                    IF backward THEN Append(acc, Token(CellSub(p, c), distance))
                    ELSE Append(acc, Token(CellSub(c, p), distance)),
                    fuel - 1)

TraceLoop(par, c, backward, acc, fuel) ==
  IF par[c] = None THEN [ok |-> TRUE, path |-> acc]
  ELSE IF fuel = 0 THEN [ok |-> FALSE, path |-> acc]
  ELSE LET p == par[c]
           distance == manhattan_distance(c, p)
       IN TraceLoop(par, p, backward,
                    IF backward THEN <<Token(CellSub(p, c), distance)>> \o acc
                    ELSE Append(acc, Token(CellSub(c, p), distance)),
                    fuel - 1)

trace_path(par, c, backward) ==
  TraceLoop(par, c, backward, << >>, Cardinality(DOMAIN par))

\* entry of a search_all call: the agent's cell and goals are recorded
EnterAll ==
  /\ Enter
  /\ cell0' = cell
  /\ goals0' = goals

\* Collect without agent.goals.remove(gl)
Collect_KeepsGoal(gl, seg) ==
  /\ goals_found' = Append(goals_found, gl)
  /\ goals' = goals
  /\ path_all' = path_all \o seg

\* goals.append(gl); agent.goals.remove(gl); path.extend(seg)
Collect(gl, seg) ==
  /\ goals_found' = Append(goals_found, gl)
  /\ goals' = Remove(goals, gl)
  /\ path_all' = path_all \o seg

\* a trace_path call of search_all that never returns
Hang ==
  /\ pc' = "hang"
  /\ UNCHANGED <<cellVars, cell, goals, loopVars, result, histVars, path_all, goals_found>>

\* bfs.search_all / dfs.search_all, lines 90-99
ListAllCall(name) ==
  /\ EnterAll
  /\ alg' = name /\ param' = 0
  /\ g' = ResetG /\ h' = ResetH /\ parent' = ResetParent
  /\ pc' = "loop"
  /\ result' = NoResult
  /\ open_list' = <<cell>>
  /\ visited' = {cell}
  /\ count' = 1
  /\ path_all' = << >>
  /\ goals_found' = << >>
  /\ expanded' = {}
  /\ UNCHANGED <<gridVars, drvVars, agentVars, open_list_goal, closed_set_goal, goal,
                 depth, frames, traceVars>>

BfsAllCall == ListAllCall("bfs_all")

\* BfsAllStep taking the newest cell of the queue, queue.pop(), for
\* queue.popleft()
BfsAllStep_PopNewest ==
  /\ pc = "loop" /\ alg = "bfs_all"
  /\ open_list # << >>
  /\ LET current == open_list[Len(open_list)]
     IN IF InSeq(current, goals)
        THEN \E tr \in {trace_path(parent, current, TRUE)} :
               IF ~tr.ok THEN Hang
               ELSE /\ Collect(current, tr.path)
                    /\ IF goals' = << >>
                       THEN /\ Return(PathResult(path_all', goals_found', count))
                            /\ open_list' = SubSeq(open_list, 1, Len(open_list) - 1)
                            /\ UNCHANGED <<cellVars, visited>>
                       ELSE /\ open_list' = <<current>>
                            /\ visited' = {current}
                            /\ parent' = [parent EXCEPT ![current] = None]
                            /\ UNCHANGED <<g, h, pc, result, histVars>>
                    /\ UNCHANGED <<cell, count, expanded, open_list_goal,
                                   closed_set_goal, goal, depth, frames>>
        ELSE \E st \in {BfsExpand([q |-> SubSeq(open_list, 1, Len(open_list) - 1), vis |-> visited,
                                  cnt |-> count, par |-> parent],
                                 current, get_neighbors(current, FALSE), 1)} :
                /\ open_list' = st.q
                /\ visited' = st.vis
                /\ count' = st.cnt
                /\ parent' = st.par
                /\ expanded' = {current}
                /\ UNCHANGED <<g, h, pc, result, histVars, cell, goals, path_all,
                               goals_found, open_list_goal, closed_set_goal, goal,
                               depth, frames>>
  /\ UNCHANGED <<gridVars, drvVars, can_jump, cell0, goals0, callVars, traceVars>>

\* bfs.search_all, one iteration of `while queue:` (lines 101-137)
BfsAllStep ==
  /\ pc = "loop" /\ alg = "bfs_all"
  /\ open_list # << >>
  /\ LET current == Head(open_list)
     IN IF InSeq(current, goals)
        THEN \E tr \in {trace_path(parent, current, TRUE)} :
               IF ~tr.ok THEN Hang
               ELSE /\ Collect(current, tr.path)
                    /\ IF goals' = << >>
                       THEN /\ Return(PathResult(path_all', goals_found', count))
                            /\ open_list' = Tail(open_list)
                            /\ UNCHANGED <<cellVars, visited>>
                       ELSE /\ open_list' = <<current>>
                            /\ visited' = {current}
                            /\ parent' = [parent EXCEPT ![current] = None]
                            /\ UNCHANGED <<g, h, pc, result, histVars>>
                    /\ UNCHANGED <<cell, count, expanded, open_list_goal,
                                   closed_set_goal, goal, depth, frames>>
        ELSE \E st \in {BfsExpand([q |-> Tail(open_list), vis |-> visited,
                                  cnt |-> count, par |-> parent],
                                 current, get_neighbors(current, FALSE), 1)} :
                /\ open_list' = st.q
                /\ visited' = st.vis
                /\ count' = st.cnt
                /\ parent' = st.par
                /\ expanded' = {current}
                /\ UNCHANGED <<g, h, pc, result, histVars, cell, goals, path_all,
                               goals_found, open_list_goal, closed_set_goal, goal,
                               depth, frames>>
  /\ UNCHANGED <<gridVars, drvVars, can_jump, cell0, goals0, callVars, traceVars>>

DfsAllCall == ListAllCall("dfs_all")

\* dfs.search_all, one iteration of `while stack:` (lines 101-134)
DfsAllStep ==
  /\ pc = "loop" /\ alg = "dfs_all"
  /\ open_list # << >>
  /\ LET current == open_list[Len(open_list)]
         rest == SubSeq(open_list, 1, Len(open_list) - 1)
     IN IF InSeq(current, goals)
        THEN \E tr \in {trace_path(parent, current, TRUE)} :
               IF ~tr.ok THEN Hang
               ELSE /\ Collect(current, tr.path)
                    /\ IF goals' = << >>
                       THEN /\ Return(PathResult(path_all', goals_found', count))
                            /\ open_list' = rest
                            /\ UNCHANGED <<cellVars, visited>>
                       ELSE /\ open_list' = <<current>>
                            /\ visited' = {current}
                            /\ parent' = [parent EXCEPT ![current] = None]
                            /\ UNCHANGED <<g, h, pc, result, histVars>>
                    /\ UNCHANGED <<cell, count, expanded, open_list_goal,
                                   closed_set_goal, goal, depth, frames>>
        ELSE \E st \in {DfsExpand([q |-> rest, vis |-> visited,
                                  cnt |-> count, par |-> parent],
                                 current, Reverse(get_neighbors(current, FALSE)), 1)} :
                /\ open_list' = st.q
                /\ visited' = st.vis
                /\ count' = st.cnt
                /\ parent' = st.par
                /\ expanded' = {current}
                /\ UNCHANGED <<g, h, pc, result, histVars, cell, goals, path_all,
                               goals_found, open_list_goal, closed_set_goal, goal,
                               depth, frames>>
  /\ UNCHANGED <<gridVars, drvVars, can_jump, cell0, goals0, callVars, traceVars>>

\* astar.search_all, lines 114-126
AstarAllCall ==
  /\ EnterAll
  /\ alg' = "astar_all" /\ param' = 0
  /\ g' = ResetG /\ parent' = ResetParent
  /\ pc' = "loop"
  /\ result' = NoResult
  /\ goal' = get_nearest_goal
  /\ h' = [ResetH EXCEPT ![cell] = manhattan_distance(cell, goal')]
  /\ open_list' = <<cell>>
  /\ visited' = {}
  /\ count' = 1
  /\ path_all' = << >>
  /\ goals_found' = << >>
  /\ expanded' = {}
  /\ UNCHANGED <<gridVars, drvVars, agentVars, open_list_goal, closed_set_goal,
                 depth, frames, traceVars>>

\* agent.get_nearest_goal() for an agent at c with the goals gl
NearestOf(c, gl) ==
  LET d(i) == manhattan_distance(c, gl[i])
      best == CHOOSE i \in 1..Len(gl) :
                /\ \A j \in 1..Len(gl) : d(i) <= d(j)
                /\ \A j \in 1..(i - 1) : d(j) > d(i)
  IN gl[best]

\* astar.search_all, one iteration of `while open_list:` (lines 128-172)
AstarAllStep ==
  /\ pc = "loop" /\ alg = "astar_all"
  /\ open_list # << >>
  /\ LET current == open_list[1]
         rest == PopF(g, h, open_list)
     IN IF InSeq(current, goals)
        THEN \E tr \in {trace_path(parent, current, TRUE)} :
               IF ~tr.ok THEN Hang
               ELSE /\ Collect(current, tr.path)
                    /\ IF goals' = << >>
                       THEN /\ Return(PathResult(path_all', goals_found', count))
                            /\ open_list' = rest
                            /\ visited' = visited \cup {current}
                            /\ UNCHANGED <<cellVars, cell, goal>>
                       ELSE /\ open_list' = <<current>>
                            /\ visited' = {}
                            /\ cell' = current
                            /\ goal' = NearestOf(current, goals')
                            /\ g' = [g EXCEPT ![current] = 0]
                            /\ h' = [h EXCEPT ![current] = manhattan_distance(current, goal')]
                            /\ parent' = [parent EXCEPT ![current] = None]
                            /\ UNCHANGED <<pc, result, histVars>>
                    /\ UNCHANGED <<count, expanded, open_list_goal, closed_set_goal,
                                   depth, frames>>
        ELSE \E st \in {AstarExpand([q |-> rest, cnt |-> count, g |-> g, h |-> h,
                                    par |-> parent],
                                   current, visited \cup {current},
                                   get_neighbors(current, FALSE), 1)} :
                /\ visited' = visited \cup {current}
                /\ open_list' = st.q
                /\ count' = st.cnt
                /\ g' = st.g /\ h' = st.h /\ parent' = st.par
                /\ expanded' = {current}
                /\ UNCHANGED <<pc, result, histVars, cell, goals, path_all, goals_found,
                               open_list_goal, closed_set_goal, goal, depth, frames>>
  /\ UNCHANGED <<gridVars, drvVars, can_jump, cell0, goals0, callVars, traceVars>>

\* greedy.search_all, lines 99-111
GreedyAllCall ==
  /\ EnterAll
  /\ alg' = "greedy_all" /\ param' = 0
  /\ g' = ResetG /\ parent' = ResetParent
  /\ pc' = "loop"
  /\ result' = NoResult
  /\ goal' = get_nearest_goal
  /\ h' = [ResetH EXCEPT ![cell] = manhattan_distance(cell, goal')]
  /\ open_list' = <<<<h'[cell], cell>>>>
  /\ visited' = {}
  /\ count' = 1
  /\ path_all' = << >>
  /\ goals_found' = << >>
  /\ expanded' = {}
  /\ UNCHANGED <<gridVars, drvVars, agentVars, open_list_goal, closed_set_goal,
                 depth, frames, traceVars>>

\* greedy.search_all, one iteration of `while open_list:` (lines 113-152);
\* agent.cell stays where it was, the nearest goal is taken from there
GreedyAllStep ==
  /\ pc = "loop" /\ alg = "greedy_all"
  /\ open_list # << >>
  /\ LET current == open_list[1][2]
         rest == PopH(g, h, open_list)
     IN IF InSeq(current, goals)
        THEN \E tr \in {trace_path(parent, current, TRUE)} :
               IF ~tr.ok THEN Hang
               ELSE /\ Collect(current, tr.path)
                    /\ IF goals' = << >>
                       THEN /\ Return(PathResult(path_all', goals_found', count))
                            /\ open_list' = rest
                            /\ visited' = visited \cup {current}
                            /\ UNCHANGED <<cellVars, goal>>
                       ELSE /\ open_list' = <<<<h[current], current>>>>
                            /\ visited' = {}
                            /\ goal' = NearestOf(cell, goals')
                            /\ h' = [h EXCEPT ![current] = manhattan_distance(current, goal')]
                            /\ parent' = [parent EXCEPT ![current] = None]
                            /\ UNCHANGED <<g, pc, result, histVars>>
                    /\ UNCHANGED <<cell, count, expanded, open_list_goal, closed_set_goal,
                                   depth, frames>>
        ELSE \E st \in {GreedyExpand([q |-> rest, cnt |-> count, h |-> h,
                                     par |-> parent],
                                    current, visited \cup {current},
                                    get_neighbors(current, FALSE), 1)} :
                /\ visited' = visited \cup {current}
                /\ open_list' = st.q
                /\ count' = st.cnt
                /\ h' = st.h /\ parent' = st.par
                /\ expanded' = {current}
                /\ UNCHANGED <<g, pc, result, histVars, cell, goals, path_all, goals_found,
                               open_list_goal, closed_set_goal, goal, depth, frames>>
  /\ UNCHANGED <<gridVars, drvVars, can_jump, cell0, goals0, callVars, traceVars>>

\* `while <frontier>:` of a search_all fails: return count
\* (bfs 141, dfs 140, astar 174, greedy 154)
ExhaustedAll ==
  /\ pc = "loop"
  /\ alg \in {"bfs_all", "dfs_all", "astar_all", "greedy_all"}
  /\ open_list = << >>
  /\ Return(IntResult(count))
  /\ UNCHANGED <<gridVars, allVars, drvVars, cellVars, agentVars, callVars, loopVars,
                 traceVars>>

\* bidirectional.search_all, the for loop over the neighbors of current_start
\* (lines 172-193): count is incremented before the test of neighbor.parent
RECURSIVE BiAllExpandStart(_, _, _, _, _)
BiAllExpandStart(st, current, closed, nbrs, i) ==
  IF i > Len(nbrs) \/ st.meet # None THEN st
  ELSE LET n == nbrs[i]
           tentative_g == st.g[current] + 1
       IN IF n \in blocked \/ n \in closed
          THEN BiAllExpandStart(st, current, closed, nbrs, i + 1)
          ELSE IF ~InSeq(n, st.q)
          THEN IF st.par[n] # None
               THEN [st EXCEPT !.cnt = st.cnt + 1, !.meet = n]
               ELSE LET g1 == [st.g EXCEPT ![n] = tentative_g]
                        h1 == [st.h EXCEPT ![n] = manhattan_distance(n, goal)]
                    IN CHOOSE r \in {BiAllExpandStart(x, current, closed, nbrs, i + 1) : x \in {
                         [st EXCEPT !.q = PushF(g1, h1, st.q, n),
                                    !.cnt = st.cnt + 1,
                                    !.g = g1, !.h = h1,
                                    !.par = [st.par EXCEPT ![n] = current]]}} : TRUE
          ELSE IF tentative_g < st.g[n]
          THEN LET g1 == [st.g EXCEPT ![n] = tentative_g]
               IN CHOOSE r \in {BiAllExpandStart(x, current, closed, nbrs, i + 1) : x \in {
                    [st EXCEPT !.g = g1,
                               !.par = [st.par EXCEPT ![n] = current],
                               !.q = HeapifyF(g1, st.h, st.q)]}} : TRUE
          ELSE BiAllExpandStart(st, current, closed, nbrs, i + 1)

\* bidirectional.search_all, the for loop over the neighbors of current_goal
\* (lines 195-216); found is found_goal as the loop over current_start left it
RECURSIVE BiAllExpandGoal(_, _, _, _, _, _)
BiAllExpandGoal(st, current, closed, nbrs, i, found) ==
  IF i > Len(nbrs) \/ st.meet # None THEN st
  ELSE LET n == nbrs[i]
           tentative_g == st.g[current] + 1
       IN IF n \in blocked \/ n \in closed
          THEN BiAllExpandGoal(st, current, closed, nbrs, i + 1, found)
          ELSE IF ~InSeq(n, st.q)
          THEN IF st.par[n] # None /\ ~found
               THEN [st EXCEPT !.cnt = st.cnt + 1, !.meet = n]
               ELSE LET g1 == [st.g EXCEPT ![n] = tentative_g]
                        h1 == [st.h EXCEPT ![n] = manhattan_distance(n, cell)]
                    IN CHOOSE r \in {BiAllExpandGoal(x, current, closed, nbrs, i + 1, found) : x \in {
                         [st EXCEPT !.q = PushF(g1, h1, st.q, n),
                                    !.cnt = st.cnt + 1,
                                    !.g = g1, !.h = h1,
                                    !.par = [st.par EXCEPT ![n] = current]]}} : TRUE
          ELSE IF tentative_g < st.g[n]
          THEN LET g1 == [st.g EXCEPT ![n] = tentative_g]
               IN CHOOSE r \in {BiAllExpandGoal(x, current, closed, nbrs, i + 1, found) : x \in {
                    [st EXCEPT !.g = g1,
                               !.par = [st.par EXCEPT ![n] = current],
                               !.q = HeapifyF(g1, st.h, st.q)]}} : TRUE
          ELSE BiAllExpandGoal(st, current, closed, nbrs, i + 1, found)

\* bidirectional.search_all, lines 151-167
BiAllCall ==
  /\ EnterAll
  /\ alg' = "bidirectional_all" /\ param' = 0
  /\ g' = ResetG /\ parent' = ResetParent
  /\ pc' = "loop"
  /\ result' = NoResult
  /\ goal' = get_nearest_goal
  /\ h' = [ResetH EXCEPT ![cell] = manhattan_distance(cell, goal')]
  /\ open_list' = <<cell>>
  /\ open_list_goal' = <<goal'>>
  /\ visited' = {}
  /\ closed_set_goal' = {}
  /\ count' = 1
  /\ path_all' = << >>
  /\ goals_found' = << >>
  /\ expanded' = {}
  /\ UNCHANGED <<gridVars, drvVars, agentVars, depth, frames, traceVars>>

\* the two trace_path calls of a meeting and the path they are joined to
Joined(par, a, conn, b) ==
  LET path_start == trace_path(par, a, TRUE)
      path_goal == trace_path(par, b, FALSE)
  IN [ok |-> path_start.ok /\ path_goal.ok,
      path |-> path_start.path \o <<conn>> \o path_goal.path]

\* bidirectional.search_all, `if found_goal:` after the two loops (lines
\* 228-245); seg is the path the meeting added, s2 the state the loops left
BiAllFound(seg, s1q, s2) ==
  /\ Collect(goal, seg)
  /\ count' = s2.cnt
  /\ IF goals' = << >>
     THEN /\ Return(PathResult(path_all', goals_found', s2.cnt))
          /\ open_list' = s1q
          /\ open_list_goal' = s2.q
          /\ g' = s2.g /\ h' = s2.h /\ parent' = s2.par
          /\ visited' = visited \cup {open_list[1]}
          /\ closed_set_goal' = closed_set_goal \cup {open_list_goal[1]}
          /\ UNCHANGED <<cell, goal>>
     ELSE /\ cell' = goal
          /\ goal' = NearestOf(goal, goals')
          /\ g' = ResetG /\ parent' = ResetParent
          /\ h' = [ResetH EXCEPT ![goal] = manhattan_distance(goal, goal')]
          /\ open_list' = <<goal>>
          /\ open_list_goal' = <<goal'>>
          /\ visited' = {}
          /\ closed_set_goal' = {}
          /\ UNCHANGED <<pc, result, histVars>>

\* bidirectional.search_all, one iteration of the while loop (lines 169-245)
BiAllStep ==
  /\ pc = "loop" /\ alg = "bidirectional_all"
  /\ open_list # << >> /\ open_list_goal # << >>
  /\ LET current_start == open_list[1]
         current_goal == open_list_goal[1]
         rest_start == PopF(g, h, open_list)
         rest_goal == PopF(g, h, open_list_goal)
     IN \E s1 \in {BiAllExpandStart([q |-> rest_start, cnt |-> count, g |-> g, h |-> h,
                                     par |-> parent, meet |-> None],
                                    current_start, visited \cup {current_start},
                                    get_neighbors(current_start, FALSE), 1)} :
        \E j1 \in {IF s1.meet = None THEN [ok |-> TRUE, path |-> << >>]
                   ELSE Joined(s1.par, current_start,
                               EnumToken(CellSub(current_start, s1.meet)), s1.meet)} :
          IF ~j1.ok THEN Hang
          ELSE
          \E s2 \in {BiAllExpandGoal([q |-> rest_goal, cnt |-> s1.cnt, g |-> s1.g,
                                      h |-> s1.h, par |-> s1.par, meet |-> None],
                                     current_goal, closed_set_goal \cup {current_goal},
                                     get_neighbors(current_goal, FALSE), 1,
                                     s1.meet # None)} :
          \E j2 \in {IF s2.meet = None THEN [ok |-> TRUE, path |-> << >>]
                     ELSE Joined(s2.par, s2.meet,
                                 EnumToken(CellSub(s2.meet, current_goal)), current_goal)} :
            IF ~j2.ok THEN Hang
            ELSE /\ expanded' = {current_start, current_goal}
                 /\ IF s1.meet # None THEN BiAllFound(j1.path, s1.q, s2)
                    ELSE IF s2.meet # None THEN BiAllFound(j2.path, s1.q, s2)
                    ELSE /\ open_list' = s1.q
                         /\ open_list_goal' = s2.q
                         /\ visited' = visited \cup {current_start}
                         /\ closed_set_goal' = closed_set_goal \cup {current_goal}
                         /\ count' = s2.cnt
                         /\ g' = s2.g /\ h' = s2.h /\ parent' = s2.par
                         /\ UNCHANGED <<pc, result, histVars, cell, goals, goal,
                                        path_all, goals_found>>
                 /\ UNCHANGED <<depth, frames>>
  /\ UNCHANGED <<gridVars, drvVars, can_jump, cell0, goals0, callVars, traceVars>>

\* the while condition of bidirectional.search_all fails: return count (247)
BiAllExhausted ==
  /\ pc = "loop" /\ alg = "bidirectional_all"
  /\ (open_list = << >> \/ open_list_goal = << >>)
  /\ Return(IntResult(count))
  /\ UNCHANGED <<gridVars, allVars, drvVars, cellVars, agentVars, callVars, loopVars,
                 traceVars>>

\* iddfs.search_all, lines 142-155, up to the entry of dls for depth 0
IddfsAllCall ==
  /\ EnterAll
  /\ alg' = "iddfs_all" /\ param' \in Limits
  /\ g' = ResetG /\ h' = ResetH /\ parent' = ResetParent
  /\ count' = 1
  /\ path_all' = << >>
  /\ goals_found' = << >>
  /\ depth' = 0
  /\ expanded' = {}
  /\ IF 1 < param'
     THEN /\ pc' = "dls_all"
          /\ result' = NoResult
          /\ visited' = {cell}
          /\ frames' = <<Frame(cell, 0, 0)>>
     ELSE /\ pc' = "done"
          /\ result' = IntResult(1)
          /\ UNCHANGED <<visited, frames>>
  /\ UNCHANGED <<gridVars, drvVars, agentVars, open_list, open_list_goal, closed_set_goal,
                 goal, traceVars>>

\* the body of the dls call on top of the stack, up to the entry of the next
\* dls call (lines 39-81), with the two loops of search_all between two
\* outermost calls (lines 156-181); frames[1].cur is the local `start`
DlsAllStep ==
  /\ pc = "dls_all"
  /\ LET top == frames[Len(frames)]
         start == frames[1].cur
     IN IF InSeq(top.cur, goals)
        THEN \E par1 \in {SuccessParents(parent, frames)} :
             \E tr \in {trace_path(par1, top.cur, TRUE)} :
               IF ~tr.ok THEN Hang
               ELSE /\ Collect(top.cur, tr.path)
                    /\ IF goals' = << >>
                       THEN /\ Return(PathResult(path_all', goals_found', count))
                            /\ parent' = par1
                            /\ frames' = << >>
                            /\ UNCHANGED <<visited, depth>>
                       ELSE /\ parent' = [par1 EXCEPT ![top.cur] = None]
                            /\ IF count < param
                               THEN /\ depth' = 0
                                    /\ visited' = {top.cur}
                                    /\ frames' = <<Frame(top.cur, 0, 0)>>
                                    /\ UNCHANGED <<pc, result, histVars>>
                               ELSE /\ Return(IntResult(count))
                                    /\ frames' = << >>
                                    /\ UNCHANGED <<visited, depth>>
                    /\ UNCHANGED <<g, h, count, expanded>>
        ELSE \E r \in {IF top.md <= 0 THEN DlsFail(frames, visited, count)
                       ELSE DlsLoop(frames, visited, count, 1)} :
               /\ count' = r.cnt
               /\ expanded' = IF top.md <= 0 THEN {} ELSE {top.cur}
               /\ IF r.status = "call"
                  THEN /\ frames' = r.frames
                       /\ visited' = r.vis
                       /\ UNCHANGED <<depth, pc, result, histVars>>
                  ELSE IF depth < net_area
                  THEN /\ depth' = depth + 1
                       /\ visited' = {start}
                       /\ frames' = <<Frame(start, depth + 1, 0)>>
                       /\ UNCHANGED <<pc, result, histVars>>
                  ELSE /\ Return(IntResult(r.cnt))
                       /\ frames' = << >>
                       /\ visited' = r.vis
                       /\ UNCHANGED depth
               /\ UNCHANGED <<cellVars, goals, path_all, goals_found>>
  /\ UNCHANGED <<gridVars, drvVars, cell, can_jump, cell0, goals0, callVars, open_list,
                 open_list_goal, closed_set_goal, goal, traceVars>>

CallAll ==
  \/ BfsAllCall
  \/ DfsAllCall
  \/ IddfsAllCall
  \/ AstarAllCall
  \/ GreedyAllCall
  \/ BiAllCall

StepAll ==
  \/ BfsAllStep
  \/ DfsAllStep
  \/ DlsAllStep
  \/ AstarAllStep
  \/ GreedyAllStep
  \/ BiAllStep
  \/ BiAllExhausted
  \/ ExhaustedAll

\* -------------------------------------------------------- specification
BlockedSets(cs) == {b \in SUBSET cs : Cardinality(b) <= MaxBlocked}
\* lists of one to most distinct goal cells
GoalListsOf(cs, most) ==
  {gl \in UNION {[1..n -> cs] : n \in 1..most} :
     \A i \in 1..Len(gl) : \A j \in 1..Len(gl) : gl[i] = gl[j] => i = j}

\* lists of one to MaxGoals distinct goal cells
GoalLists(cs) == GoalListsOf(cs, MaxGoals)

\* Grid(size, walls) and Agent(grid, location, goals, can_jump) just
\* constructed, the width being one of widths, the height one of heights,
\* can_jump one of jumps and goals a list of one to most goals
InitOn(widths, heights, jumps, most) ==
  /\ width \in widths /\ height \in heights
  /\ blocked \in BlockedSets(CellsOf(width, height))
  /\ g = [c \in CellsOf(width, height) |-> 0]
  /\ h = [c \in CellsOf(width, height) |-> 0]
  /\ parent = [c \in CellsOf(width, height) |-> None]
  /\ cell \in CellsOf(width, height)
  /\ goals \in GoalListsOf(CellsOf(width, height), most)
  /\ can_jump \in jumps
  /\ alg = "none" /\ param = 0
  /\ pc = "idle"
  /\ open_list = << >> /\ open_list_goal = << >>
  /\ visited = {} /\ closed_set_goal = {}
  /\ count = 0 /\ goal = None /\ depth = 0 /\ frames = << >> /\ expanded = {}
  /\ tjobs = << >> /\ tpath = << >> /\ tparts = << >> /\ tconn = "" /\ rgoal = None
  /\ result = NoResult
  /\ runs = 0 /\ agents = 1 /\ cut = {}
  /\ last = [alg |-> "none", param |-> 0, res |-> NoResult]
  /\ prev = "idle"
  /\ path_all = << >> /\ goals_found = << >> /\ cell0 = cell /\ goals0 = goals
  /\ argv = << >> /\ stdin = << >> /\ console = << >> /\ raised = ""

\* the same on the grids of up to MaxW by MaxH cells
InitFor(jumps, most) == InitOn(1..MaxW, 1..MaxH, jumps, most)

\* the same with at most MaxGoals goals
InitWith(jumps) == InitFor(jumps, MaxGoals)

\* Agent(grid, location, goals): can_jump keeps its default, False
Init == InitWith({FALSE})

\* GridReset that clears g and h and leaves the parent links
GridReset_KeepsParent ==
  /\ pc = "done"
  /\ pc' = "reset"
  /\ g' = ResetG /\ h' = ResetH
  /\ UNCHANGED <<gridVars, allVars, drvVars, parent, agentVars, callVars, loopVars,
                 traceVars, result, histVars>>

\* Grid.reset() called between two searches
GridReset ==
  /\ pc = "done"
  /\ pc' = "reset"
  /\ g' = ResetG /\ h' = ResetH /\ parent' = ResetParent
  /\ UNCHANGED <<gridVars, allVars, drvVars, agentVars, callVars, loopVars, traceVars, result, histVars>>

\* Agent(grid, location, goals): another agent is built on the same grid, at
\* any location, for the same goals
NewAgent ==
  /\ pc = "done"
  /\ agents < MaxAgents
  /\ agents' = agents + 1
  /\ pc' = "idle"
  /\ cell' \in Cells
  /\ UNCHANGED <<gridVars, allVars, drvVars, cellVars, goals, can_jump, callVars, loopVars, traceVars,
                 result, runs, last, prev, cut>>

Call ==
  \/ BfsCall
  \/ DfsCall
  \/ IddfsCall
  \/ AstarCall
  \/ GreedyCall
  \/ BeamCall
  \/ BiCall

Step ==
  \/ BfsStep
  \/ DfsStep
  \/ DlsStep
  \/ AstarStep
  \/ GreedyStep
  \/ BeamStep
  \/ BiStep
  \/ BiExhausted
  \/ Exhausted
  \/ TraceStep
  \/ TraceReturn

\* one search call on a freshly built grid and agent
Next ==
  \/ (pc = "idle" /\ Call)
  \/ Step

Spec == Init /\ [][Next]_vars

\* a grid with one blocked cell at most and a single goal
InitOpen == Init /\ Cardinality(blocked) <= 1 /\ Len(goals) = 1

\* one call on such a grid, which always runs on: no step of the call
\* in progress is postponed for ever
FairSpec == InitOpen /\ [][Next]_vars /\ WF_vars(Next)

\* the same agent searches again and again, with or without Grid.reset() between
NextSeq ==
  \/ Call
  \/ Step
  \/ GridReset

SpecSeq == InitOpen /\ [][NextSeq]_vars

\* two agents on one grid, each searching once
NextAgents ==
  \/ (pc = "idle" /\ Call)
  \/ Step
  \/ NewAgent

SpecAgents == InitOpen /\ [][NextAgents]_vars

\* one call, of a single-goal search or of an all-goals search, on a freshly
\* built grid and agent
NextAll ==
  \/ (pc = "idle" /\ Call)
  \/ (pc = "idle" /\ CallAll)
  \/ Step
  \/ StepAll

SpecAll == Init /\ [][NextAll]_vars

\* ------------------------------------------------ Grid.get_neighbors called
\* grid.get_neighbors(c, jump) on the grid just built, for any cell and flag
\* (environment.py, __main__: agent.grid.get_neighbors(agent.cell, True))
GetNeighborsCall ==
  /\ pc = "idle"
  /\ \E c \in Cells, jump \in BOOLEAN :
       result' = [kind |-> "neighbors", cell |-> c, can_jump |-> jump,
                  value |-> get_neighbors(c, jump)]
  /\ pc' = "done"
  /\ alg' = "get_neighbors"
  /\ UNCHANGED <<gridVars, allVars, drvVars, cellVars, agentVars, param, loopVars,
                 traceVars, histVars>>

SpecNeighbors == Init /\ [][GetNeighborsCall]_vars

\* ------------------------------------------------ Agent.trace_path called
MaxChain == 4

\* lists of two to MaxChain distinct cells, each next to the one before it:
\* at any distance along a row or a column if the agent can jump
Chains ==
  {s \in UNION {[1..n -> Cells] : n \in 2..MaxChain} :
     /\ \A i \in 1..Len(s) : \A j \in 1..Len(s) : s[i] = s[j] => i = j
     /\ \A i \in 1..(Len(s) - 1) : InSeq(s[i + 1], get_neighbors(s[i], can_jump))}

\* cell.parent = the cell before it in the list, for every cell but the first
\* (environment.py, __main__)
LinkParents ==
  /\ pc = "idle"
  /\ \E locations \in Chains :
       parent' = [c \in Cells |->
                    IF \E i \in 2..Len(locations) : locations[i] = c
                    THEN locations[(CHOOSE i \in 2..Len(locations) : locations[i] = c) - 1]
                    ELSE None]
  /\ pc' = "linked"
  /\ UNCHANGED <<gridVars, allVars, drvVars, g, h, agentVars, callVars, loopVars,
                 traceVars, result, histVars>>

\* agent.trace_path(c, backward) on the linked cells
TracePathCall ==
  /\ pc = "linked"
  /\ \E c \in Cells, backward \in BOOLEAN :
       \E tr \in {trace_path(parent, c, backward)} :
         /\ tr.ok
         /\ result' = [kind |-> "trace", cell |-> c, backward |-> backward,
                       value |-> tr.path]
  /\ pc' = "done"
  /\ alg' = "trace_path"
  /\ UNCHANGED <<gridVars, allVars, drvVars, cellVars, agentVars, param, loopVars,
                 traceVars, histVars>>

\* an open grid with an agent that can or cannot jump
InitTrace == InitWith(BOOLEAN) /\ blocked = {} /\ Len(goals) = 1

NextTrace ==
  \/ LinkParents
  \/ TracePathCall

SpecTrace == InitTrace /\ [][NextTrace]_vars

\* ------------------------------------------------ Agent.get_nearest_goal called
\* agent.get_nearest_goal() on the agent just built
NearestGoalCall ==
  /\ pc = "idle"
  /\ result' = [kind |-> "nearest", value |-> get_nearest_goal]
  /\ pc' = "done"
  /\ alg' = "get_nearest_goal"
  /\ UNCHANGED <<gridVars, allVars, drvVars, cellVars, agentVars, param, loopVars,
                 traceVars, histVars>>

SpecNearest == Init /\ [][NearestGoalCall]_vars

\* one call, of a single-goal search or of an all-goals search, then
\* Grid.reset()
NextReset ==
  \/ NextAll
  \/ GridReset

SpecReset == Init /\ [][NextReset]_vars

\* ------------------------------------------------------------ search.py
\* Command-line words and typed lines are finite sequences of one-character
\* strings over Digits, Letters and ".".
Digits == <<"0", "1", "2", "3", "4", "5", "6", "7", "8", "9">>
Letters == {"a", "c", "t"}
IsDigit(ch) == InSeq(ch, Digits)
DigitValue(ch) == (CHOOSE i \in 1..Len(Digits) : Digits[i] = ch) - 1

IsDigits(s) == s # << >> /\ \A i \in 1..Len(s) : IsDigit(s[i])

\* a decimal integer literal: no leading zero unless every digit is zero
IntLiteral(s) ==
  IsDigits(s) /\ (s[1] # "0" \/ \A i \in 1..Len(s) : s[i] = "0")

\* digits "." digits, one side of the point may be empty
FloatLiteral(s) ==
  \E k \in 1..Len(s) :
    LET left == SubSeq(s, 1, k - 1)
        right == SubSeq(s, k + 1, Len(s))
    IN /\ s[k] = "."
       /\ left = << >> \/ IsDigits(left)
       /\ right = << >> \/ IsDigits(right)
       /\ left # << >> \/ right # << >>

Identifier(s) ==
  /\ s # << >> /\ s[1] \in Letters
  /\ \A i \in 1..Len(s) : s[i] \in Letters \/ IsDigit(s[i])

\* identifiers joined by single points: a name, or attributes of a name
RECURSIVE DottedName(_)
DottedName(s) ==
  \/ Identifier(s)
  \/ \E k \in 2..(Len(s) - 1) :
       /\ s[k] = "."
       /\ Identifier(SubSeq(s, 1, k - 1))
       /\ DottedName(SubSeq(s, k + 1, Len(s)))

\* type(eval(limit_str)) of line 29, or the exception eval raises.  None of
\* the names that can be spelt with Letters is bound in search.py or is a
\* builtin, and no float has an attribute spelt with them.
EvalType(s) ==
  IF IntLiteral(s) THEN "int"
  ELSE IF FloatLiteral(s) THEN "float"
  ELSE IF s = <<".", ".", ".">> THEN "ellipsis"
  ELSE IF DottedName(s) THEN "NameError"
  ELSE IF \E k \in 2..(Len(s) - 1) :
            /\ s[k] = "."
            /\ FloatLiteral(SubSeq(s, 1, k - 1))
            /\ DottedName(SubSeq(s, k + 1, Len(s)))
  THEN "AttributeError"
  ELSE "SyntaxError"

\* int(limit_str) of line 30, for a string of digits
RECURSIVE IntOf(_)
IntOf(s) ==
  IF s = << >> THEN 0
  ELSE 10 * IntOf(SubSeq(s, 1, Len(s) - 1)) + DigitValue(s[Len(s)])

\* str.strip() of line 28: blanks at both ends are dropped
RECURSIVE Strip(_)
Strip(s) ==
  IF s = << >> THEN s
  ELSE IF s[1] = " " THEN Strip(Tail(s))
  ELSE IF s[Len(s)] = " " THEN Strip(SubSeq(s, 1, Len(s) - 1))
  ELSE s

\* the map file of the maps directory (map.py, FILENAME) and a name no file
\* of the directory has
MapFiles == {"RobotNav-test.txt"}
FileNames == MapFiles \cup {"missing.txt"}

\* the modules of the algorithms package
Modules == {"bfs", "dfs", "iddfs", "astar", "greedy", "beam", "bidirectional"}
MethodWords == Modules \cup {"IDDFS", "hillclimb"}

\* str.lower() of line 16, on MethodWords
Lower(word) == IF word = "IDDFS" THEN "iddfs" ELSE word

MaxLimitLen == 2
LimitAlphabet == {"0", "1", "4", ".", "a"}
LimitWords == UNION {[1..n -> LimitAlphabet] : n \in 0..MaxLimitLen}
LimitWordsUsed ==
  {s \in LimitWords : EvalType(s) = "int" => IntOf(s) \in Limits \cup {0}}
StdinLines == {<< >>, <<" ">>, <<"4", " ">>, <<" ", "a">>, <<"4", "a">>, <<"1">>}

\* sys.argv: the program name, then up to three words
Argvs ==
  {<<"search.py">>}
    \cup {<<"search.py", f>> : f \in FileNames}
    \cup {<<"search.py", f, m>> : f \in FileNames, m \in MethodWords}
    \cup {<<"search.py", f, m, l>> :
            f \in FileNames, m \in MethodWords, l \in LimitWordsUsed}

method == Lower(argv[3])

\* limit_str of line 28, once the line typed has been read into stdin
limit_str == IF Len(argv) > 3 THEN argv[4] ELSE Strip(stdin)

\* limit of lines 26-30
limit ==
  IF method = "iddfs" /\ limit_str # << >> /\ EvalType(limit_str) = "int"
  THEN IntOf(limit_str) ELSE 0

\* the process ends: with a traceback if exc names an exception no except
\* clause caught, normally if exc is ""
Exit(printed, exc) ==
  /\ pc' = "exit"
  /\ console' = console \o printed
  /\ raised' = exc

\* search.py, lines 10-30 with the except clauses of lines 46-62: the
\* arguments are read, the map is loaded, the module is imported and the
\* limit is read.  The grid and the agent of the state are those the map file
\* describes.
DriverStart ==
  /\ pc = "idle" /\ argv = << >>
  /\ \E a \in Argvs, line \in StdinLines :
       /\ argv' = a
       /\ IF Len(a) < 3
          THEN Exit(<<"Please provide the name of the map file and search algorithm",
                      "Example">>, "") /\ stdin' = stdin
          ELSE IF a[2] \notin MapFiles
          THEN Exit(<<"Map file not found">>, "") /\ stdin' = stdin
          ELSE IF Lower(a[3]) \notin Modules
          THEN Exit(<<"Search algorithm not found">>, "") /\ stdin' = stdin
          ELSE IF Lower(a[3]) # "iddfs"
          THEN UNCHANGED <<pc, console, raised, stdin>>
          ELSE LET str == IF Len(a) > 3 THEN a[4] ELSE Strip(line)
                   prompt == IF Len(a) > 3 THEN << >> ELSE <<"Enter the limit">>
               IN /\ stdin' = IF Len(a) > 3 THEN stdin ELSE line
                  /\ IF str # << >> /\ EvalType(str) \in
                          {"NameError", "SyntaxError", "AttributeError"}
                     THEN Exit(prompt, EvalType(str))
                     ELSE /\ console' = console \o prompt
                          /\ UNCHANGED <<pc, raised>>
  /\ UNCHANGED <<gridVars, allVars, cellVars, agentVars, callVars, loopVars,
                 traceVars, result, histVars>>

\* search.py, lines 32-35: algorithm.search is called.  The agent of line 21
\* has no attribute map, which bfs, dfs, astar, greedy and bidirectional read
\* in their first statement.
DriverSearch ==
  /\ pc = "idle" /\ argv # << >>
  /\ \/ /\ method = "iddfs"
        /\ IddfsCall
        /\ param' = IF limit # 0 THEN limit ELSE DefaultLimit
     \/ /\ method = "beam"
        /\ BeamCall
        /\ param' = DefaultBeamWidth
     \/ /\ method \notin {"iddfs", "beam"}
        /\ Exit(<< >>, "AttributeError")
        /\ UNCHANGED <<gridVars, allVars, cellVars, agentVars, callVars,
                       loopVars, traceVars, result, histVars, argv, stdin>>

\* search.py, lines 38-43: the result is printed
DriverPrint ==
  /\ pc = "done" /\ argv # << >>
  /\ Exit(<<"filename method">> \o
          (IF result.kind = "path" THEN <<"goal count", "path">>
           ELSE <<"No goal is reachable">>), "")
  /\ UNCHANGED <<gridVars, allVars, cellVars, agentVars, callVars, loopVars,
                 traceVars, result, histVars, argv, stdin>>

\* python search.py <filename> <method> [<limit>] on a map file
NextDriver ==
  \/ DriverStart
  \/ DriverSearch
  \/ DlsStep
  \/ BeamStep
  \/ Exhausted
  \/ TraceStep
  \/ TraceReturn
  \/ DriverPrint

SpecDriver == InitOpen /\ [][NextDriver]_vars

\* an agent with up to MaxTargets goals on a grid with one blocked cell at
\* most
MaxTargets == 3
InitTargets == InitFor({FALSE}, MaxTargets) /\ Cardinality(blocked) <= 1

\* one call of astar.search_all or greedy.search_all on such a grid
NextTargets ==
  \/ (pc = "idle" /\ AstarAllCall)
  \/ (pc = "idle" /\ GreedyAllCall)
  \/ AstarAllStep
  \/ GreedyAllStep
  \/ ExhaustedAll

SpecTargets == InitTargets /\ [][NextTargets]_vars

\* a grid of WideW by WideH cells with one blocked cell at most and an agent
\* with one goal: wide enough for A* to reach a frontier cell a second time
\* by a shorter way
WideW == 4
WideH == 4
InitWide ==
  InitOn({WideW}, {WideH}, {FALSE}, 1) /\ Cardinality(blocked) <= 1

\* one call of astar.search on such a grid
NextWide ==
  \/ (pc = "idle" /\ AstarCall)
  \/ AstarStep
  \/ Exhausted
  \/ TraceStep
  \/ TraceReturn

SpecWide == InitWide /\ [][NextWide]_vars

\* ===================================================== properties
\* Reference notions, defined on the grid alone.
Adjacent(a, b) == manhattan_distance(a, b) = 1

RECURSIVE ReachFrom(_)
ReachFrom(S) ==
  LET more == {c \in Cells \ (S \cup blocked) : \E a \in S : Adjacent(a, c)}
  IN IF more = {} THEN S ELSE ReachFrom(S \cup more)

\* the start and the free cells a 4-connected walk from it reaches
Reachable == ReachFrom({cell})

RECURSIVE DistFrom(_, _, _, _)
DistFrom(front, seen, d, t) ==
  IF t \in front THEN d
  ELSE LET more == {c \in Cells \ (seen \cup blocked) : \E a \in front : Adjacent(a, c)}
       IN IF more = {} THEN -1 ELSE DistFrom(more, seen \cup more, d + 1, t)

\* length of a shortest walk through free cells from the start to t (-1: none)
Dist(t) == DistFrom({cell}, {cell}, 0, t)

DirOf(tok) ==
  IF tok \in {"up", "Direction.UP"} THEN "up"
  ELSE IF tok \in {"left", "Direction.LEFT"} THEN "left"
  ELSE IF tok \in {"down", "Direction.DOWN"} THEN "down"
  ELSE IF tok \in {"right", "Direction.RIGHT"} THEN "right"
  ELSE "none"

\* the cell reached by applying path[i..] from c one cell at a time; None when
\* a token is no direction or a move leaves the grid or enters a blocked cell
RECURSIVE WalkFrom(_, _, _)
WalkFrom(c, path, i) ==
  IF i > Len(path) THEN c
  ELSE LET d == DirOf(path[i])
           n == NeighborAt(c, d, 1)
       IN IF d = "none" \/ n \notin Cells \/ n \in blocked THEN None
          ELSE WalkFrom(n, path, i + 1)

Returned == pc = "done"
ReturnedPath == pc = "done" /\ result.kind = "path"
ReturnedInt == pc = "done" /\ result.kind = "int"
NoGoalReachable == \A i \in 1..Len(goals) : goals[i] \notin Reachable

\* C1: whenever a single-goal search returns a path result, its tokens applied
\* from the start stay in bounds, enter no blocked cell and end on the returned
\* goal, which is one of the agent's goals.
C1_PathLeadsToGoal ==
  ReturnedPath =>
    /\ WalkFrom(cell, result.path, 1) = result.goal
    /\ InSeq(result.goal, goals)

\* C2: for BFS, IDDFS (visited-cell limit not reached) and A*, the returned path
\* has as many tokens as a shortest walk through free cells from the start to
\* the returned goal has edges.
C2_ShortestPath ==
  (ReturnedPath /\ (alg \in {"bfs", "astar"} \/ (alg = "iddfs" /\ result.count < param))) =>
    Len(result.path) = Dist(result.goal)

\* a shortest path that has to go round a wall, found with two goals set
C2_Witness ==
  /\ ReturnedPath
  /\ (alg \in {"bfs", "astar"} \/ (alg = "iddfs" /\ result.count < param))
  /\ Len(goals) = 2
  /\ Len(result.path) = Dist(result.goal)
  /\ Dist(result.goal) > manhattan_distance(cell, result.goal)

\* C3: if no goal is reachable from the start through free cells, the search
\* returns the bare visited count, never a path result.
C3_FailureIsInt ==
  (Returned /\ NoGoalReachable) => result.kind = "int"

\* every goal is a free cell that walls cut off from the (free) start cell
Enclosed ==
  /\ cell \notin blocked
  /\ \A i \in 1..Len(goals) : goals[i] \notin blocked
  /\ NoGoalReachable

Untouched == g = ResetG /\ h = ResetH /\ parent = ResetParent
C5_StartIsGoal ==
  (Returned /\ InSeq(cell, goals)) =>
    /\ result = PathResult(<< >>, cell, 1)
    /\ (prev = "idle" /\ runs = 1 => Untouched)
    /\ expanded = {}

\* C6: every search call terminates.
C6_Terminates == <>(pc = "done")

RECURSIVE ChainEnds(_, _)
ChainEnds(c, n) ==
  IF parent[c] = None THEN TRUE
  ELSE IF n = 0 THEN FALSE
  ELSE ChainEnds(parent[c], n - 1)

\* C7: the parent links never form a cycle: from every cell they lead to a
\* cell without parent.
C7_ParentForest == \A c \in Cells : ChainEnds(c, Cardinality(Cells))

\* the cells in a frontier: queue, stack, open lists, beam, recursion stack
FrontierCells ==
  {IF alg = "greedy" THEN open_list[i][2] ELSE open_list[i] : i \in 1..Len(open_list)}
    \cup {open_list_goal[i] : i \in 1..Len(open_list_goal)}
    \cup {frames[i].cur : i \in 1..Len(frames)}

\* C8: no blocked cell is ever in a frontier or expanded.
C8_NoBlockedInFrontier == (FrontierCells \cup expanded) \cap blocked = {}

\* C9: the entry point of every search clears g, h and parent on every cell
\* (the start cell's h is then set to the heuristic).
C9_EntryClears ==
  [][runs' = runs + 1 =>
       \A c \in Cells : g'[c] = 0 /\ parent'[c] = None /\ (c # cell => h'[c] = 0)]_vars

\* C10: a search, Grid.reset(), and the same search again on the same agent
\* return the same path, goal and count.
C10_RerunAfterReset ==
  (Returned /\ prev = "reset" /\ last.alg = alg /\ last.param = param) =>
    result = last.res

\* ------------------------------------------------ all-goals searches
AllAlgs == {"bfs_all", "dfs_all", "iddfs_all", "astar_all", "greedy_all",
            "bidirectional_all"}

\* every goal the agent had at the entry of search_all can be reached from
\* the cell it was on, through free cells
AllGoalsReachable ==
  \A i \in 1..Len(goals0) : goals0[i] \in ReachFrom({cell0})

\* path[i..] applied from c one free cell at a time passes through
\* gl[j], gl[j + 1], ... in this order and ends on the last of them
RECURSIVE PassesThrough(_, _, _, _, _)
PassesThrough(c, p, i, gl, j) ==
  LET j1 == IF j < Len(gl) /\ c = gl[j] THEN j + 1 ELSE j
  IN IF i > Len(p) THEN j1 = Len(gl) /\ c = gl[j1]
     ELSE LET d == DirOf(p[i])
              n == NeighborAt(c, d, 1)
          IN IF d = "none" \/ n \notin Cells \/ n \in blocked THEN FALSE
             ELSE PassesThrough(n, p, i + 1, gl, j1)

\* the visited-cell limit of iddfs.search_all was never reached
LimitNotReached == alg = "iddfs_all" => count < param

\* the result of a search_all call lists every goal once and its path visits
\* them in the listed order
GoodAllResult ==
  /\ result.kind = "path"
  /\ Len(result.goal) = Len(goals0)
  /\ \A i \in 1..Len(goals0) : InSeq(goals0[i], result.goal)
  /\ PassesThrough(cell0, result.path, 1, result.goal, 1)

\* C11: when every goal is reachable (and the IDDFS limit is not reached), an
\* all-goals search returns; its result lists every initial goal exactly once
\* and its concatenated path, applied from the start through free cells,
\* passes through the goals in the returned order and ends on the last one.
C11_AllGoalsVisited ==
  (alg \in AllAlgs /\ AllGoalsReachable /\ LimitNotReached) =>
    /\ pc # "hang"
    /\ pc = "done" => GoodAllResult

\* ------------------------------------------------ the IDDFS limit
IddfsAlgs == {"iddfs", "iddfs_all"}

\* a dls call has just been entered on a cell that is no goal, with the
\* visited count at the limit
LimitReached ==
  /\ alg \in IddfsAlgs
  /\ pc \in {"dls", "dls_all"}
  /\ count = param
  /\ ~InSeq(frames[Len(frames)].cur, goals)

\* C12: in an IDDFS search (single goal or all goals, limit >= 1) the visited
\* count never exceeds the limit; once it has reached the limit without a
\* goal found, no further cell is counted, no goal is found any more and the
\* call returns the bare integer count, equal to the limit.
C12_LimitStops ==
  /\ [](alg \in IddfsAlgs => count <= param)
  /\ [][LimitReached =>
          /\ count' = count
          /\ goals_found' = goals_found
          /\ pc' \in {"dls", "dls_all", "done"}
          /\ pc' = "done" => result' = IntResult(param)]_vars

\* an all-goals IDDFS that found one goal, then reached the limit and
\* returned it although the other goal is reachable
C12_Witness ==
  /\ pc = "done" /\ alg = "iddfs_all"
  /\ result = IntResult(param)
  /\ param >= 1 /\ count = param
  /\ Len(goals_found) = 1
  /\ AllGoalsReachable

\* ------------------------------------------------ the visited count
CountingAlgs == {"bfs", "dfs", "astar", "greedy"}

\* the cells put in the frontier so far, the start included: those still in
\* it and those taken out of it (bfs, dfs: the visited set holds both)
Enqueued ==
  IF alg = "greedy" THEN {open_list[i][2] : i \in 1..Len(open_list)} \cup visited
  ELSE {open_list[i] : i \in 1..Len(open_list)} \cup visited

FreeCells == Cells \ blocked

\* C13: in BFS, DFS, A* and greedy single-goal search the visited count is
\* the number of distinct cells enqueued so far, the start included (no cell
\* is enqueued or counted twice), and the returned count never exceeds the
\* number of free cells.
C13_CountIsEnqueued ==
  (alg \in CountingAlgs) =>
    /\ pc \in {"loop", "trace"} => count = Cardinality(Enqueued)
    /\ Returned => result.count <= Cardinality(FreeCells)

\* ------------------------------------------------ Grid.get_neighbors
\* the distances, at most one if there is no jumping, at which the grid has
\* a cell from c in direction dir
Distances(c, dir, jump) ==
  {d \in 1..(width + height) : NeighborAt(c, dir, d) \in Cells /\ (jump \/ d = 1)}

\* those cells by increasing distance
InBounds(c, dir, jump) ==
  LET S == Distances(c, dir, jump)
      nth(i) == CHOOSE d \in S : Cardinality({e \in S : e < d}) = i - 1
  IN [i \in 1..Cardinality(S) |-> NeighborAt(c, dir, nth(i))]

\* C14: Grid.get_neighbors(cell, can_jump) returns exactly the in-bounds cells
\* in the order up, left, down, right: without jumping the cell at distance 1
\* of each direction, with jumping every in-bounds cell of the direction by
\* increasing distance; blocked cells are in the list like free ones.
C14_NeighborsInOrder ==
  (pc = "done" /\ result.kind = "neighbors") =>
    result.value = InBounds(result.cell, "up", result.can_jump)
                     \o InBounds(result.cell, "left", result.can_jump)
                     \o InBounds(result.cell, "down", result.can_jump)
                     \o InBounds(result.cell, "right", result.can_jump)

\* a jumping call that returns two cells of one direction and a blocked cell
C14_Witness ==
  /\ pc = "done" /\ result.kind = "neighbors"
  /\ result.can_jump
  /\ Len(InBounds(result.cell, "right", TRUE)) = 2
  /\ Len(result.value) >= 3
  /\ \E i \in 1..Len(result.value) : result.value[i] \in blocked

\* ------------------------------------------------ Agent.trace_path
\* c, its parent, the parent of its parent, ... up to the root of the chain
RECURSIVE ChainOf(_)
ChainOf(c) == IF parent[c] = None THEN <<c>> ELSE <<c>> \o ChainOf(parent[c])

\* the token of the move from a to b along a row or a column
MoveToken(a, b) ==
  LET d == manhattan_distance(a, b)
      dir == CHOOSE x \in {"up", "left", "down", "right"} : NeighborAt(a, x, d) = b
  IN IF can_jump THEN dir \o "_" \o ToString(d) ELSE dir

\* C15: for a cell whose parent chain ends at a root r, trace_path with
\* backward = True returns the tokens of the moves from r to the cell in
\* travel order, and with backward = False the tokens of the moves from the
\* cell back to r in travel order; a token carries the suffix _d, d the
\* length of its edge, exactly when the agent can jump.
C15_TracePathDirections ==
  (pc = "done" /\ result.kind = "trace") =>
    LET ch == ChainOf(result.cell)
        k == Len(ch) - 1
    IN result.value =
         IF result.backward
         THEN [i \in 1..k |-> MoveToken(ch[k + 2 - i], ch[k + 1 - i])]
         ELSE [i \in 1..k |-> MoveToken(ch[i], ch[i + 1])]

\* a backward trace of a jumping agent over two edges, one of length 2
C15_Witness ==
  /\ pc = "done" /\ result.kind = "trace"
  /\ can_jump /\ result.backward
  /\ Len(result.value) = 2
  /\ result.value[1] \in {"left_2", "right_2"}
  /\ result.value[2] \in {"up_1", "down_1"}

\* ------------------------------------------------ Agent.get_nearest_goal
\* C16: get_nearest_goal returns a goal at minimum Manhattan distance from
\* the agent's cell: the one that comes first in the goal list among those.
C16_NearestGoalFirst ==
  (pc = "done" /\ result.kind = "nearest") =>
    \E i \in 1..Len(goals) :
      /\ result.value = goals[i]
      /\ \A j \in 1..Len(goals) :
           /\ Abs(cell[1] - goals[j][1]) + Abs(cell[2] - goals[j][2])
                >= Abs(cell[1] - goals[i][1]) + Abs(cell[2] - goals[i][2])
           /\ j < i => Abs(cell[1] - goals[j][1]) + Abs(cell[2] - goals[j][2])
                         > Abs(cell[1] - goals[i][1]) + Abs(cell[2] - goals[i][2])

\* two goals at the same distance from the agent: the first is returned
C16_Witness ==
  /\ pc = "done" /\ result.kind = "nearest"
  /\ Len(goals) = 2
  /\ manhattan_distance(cell, goals[1]) = manhattan_distance(cell, goals[2])
  /\ result.value = goals[1]

\* ------------------------------------------------ Grid.reset and blocked
\* C17: Grid.reset() sets g = 0, h = 0 and parent = None on every cell and
\* leaves the blocked flags and the coordinates of the cells as they are; no
\* step of any search, single goal or all goals, changes a blocked flag.
C17_ResetFrame ==
  [][/\ blocked' = blocked
     /\ width' = width /\ height' = height
     /\ (pc = "done" /\ pc' = "reset") =>
          /\ \A c \in Cells : g'[c] = 0 /\ h'[c] = 0 /\ parent'[c] = None
          /\ DOMAIN g' = Cells /\ DOMAIN h' = Cells /\ DOMAIN parent' = Cells]_vars

\* the grid was reset after a search that had left annotations on a grid
\* with a wall: they are cleared, the wall is still there
C17_Witness ==
  /\ pc = "reset"
  /\ blocked # {}
  /\ result.kind = "path" /\ Len(result.path) >= 2
  /\ \A c \in Cells : g[c] = 0 /\ h[c] = 0 /\ parent[c] = None

\* ------------------------------------------------ BFS: goals by distance
\* length of a shortest walk through free cells from a to t (-1: none)
DistBetween(a, t) == DistFrom({a}, {a}, 0, t)

\* t is reachable from a and no goal of gl is nearer to a
NearestFrom(a, t, gl) ==
  /\ DistBetween(a, t) >= 0
  /\ \A i \in 1..Len(gl) :
       DistBetween(a, gl[i]) >= 0 => DistBetween(a, t) <= DistBetween(a, gl[i])

\* the goals of gl that are not among the first n of found
Remaining(gl, found, n) ==
  SelectSeq(gl, LAMBDA x : \A j \in 1..n : found[j] # x)

\* C18: BFS reaches goals in order of distance.  The goal a single-goal BFS
\* returns is at minimal shortest-path distance from the start among all
\* goals; every goal an all-goals BFS has reached is at minimal shortest-path
\* distance from the previous origin (the start, then the goal reached just
\* before) among the goals that remained then.
C18_BfsGoalsByDistance ==
  /\ (alg = "bfs" /\ ReturnedPath) => NearestFrom(cell, result.goal, goals)
  /\ alg = "bfs_all" =>
       \A n \in 1..Len(goals_found) :
         NearestFrom(IF n = 1 THEN cell0 ELSE goals_found[n - 1],
                     goals_found[n],
                     Remaining(goals0, goals_found, n - 1))

\* all-goals BFS with a far goal listed first and a goal next to the start
\* listed second: the adjacent goal is reached first
C18_Witness ==
  /\ alg = "bfs_all" /\ ReturnedPath
  /\ Len(goals0) = 2
  /\ result.goal = <<goals0[2], goals0[1]>>
  /\ DistBetween(cell0, goals0[2]) = 1
  /\ DistBetween(cell0, goals0[1]) >= 2

ConfigError ==
  \/ Len(argv) < 3
  \/ argv[2] \notin MapFiles
  \/ method \notin Modules
  \/ method = "iddfs" /\ Len(argv) > 3 /\ ~IntLiteral(argv[4])

\* C20: for every configuration error (missing arguments, a nonexistent map
\* file, an unknown algorithm name, a limit argument of iddfs that is not an
\* integer) the driver ends normally: it has printed a message and no
\* exception is left uncaught.
C20_ConfigErrorsReported ==
  (pc = "exit" /\ ConfigError) => (raised = "" /\ console # << >>)

\* ------------------------------------------- bidirectional: the meeting
\* the parent links from c lead to root within n steps
RECURSIVE ChainLeadsTo(_, _, _)
ChainLeadsTo(c, root, n) ==
  IF c = root THEN TRUE
  ELSE IF parent[c] = None \/ n = 0 THEN FALSE
  ELSE ChainLeadsTo(parent[c], root, n - 1)

\* bidirectional.search has just declared a meeting: trace_path is entered for
\* the start-side cell and for the goal-side cell of the connecting edge
MeetingDeclared ==
  /\ alg = "bidirectional" /\ pc = "trace"
  /\ Len(tjobs) = 2 /\ tparts = << >> /\ tpath = << >>

\* the Manhattan-nearest goal is a free cell that a walk through free cells
\* from the free start cell reaches
NearestGoalReachable ==
  /\ cell \notin blocked
  /\ get_nearest_goal \notin blocked
  /\ get_nearest_goal \in Reachable

\* C21: bidirectional single-goal search, whenever the Manhattan-nearest goal
\* is reachable from the start, returns a path whose tokens applied from the
\* start end on that goal; a meeting is declared only on an edge whose
\* start-side cell has a parent chain leading to the start and whose goal-side
\* cell has a parent chain leading to the goal.
C21_BiMeetsAndJoins ==
  alg = "bidirectional" =>
    /\ MeetingDeclared =>
         /\ ChainLeadsTo(tjobs[1].c, cell, Cardinality(Cells))
         /\ ChainLeadsTo(tjobs[2].c, goal, Cardinality(Cells))
    /\ (Returned /\ NearestGoalReachable) =>
         /\ result.kind = "path"
         /\ result.goal = get_nearest_goal
         /\ WalkFrom(cell, result.path, 1) = get_nearest_goal

\* ------------------------------------------------- beam: cells cut off
\* a step of the while loop of beam.search that expands a cell
BeamExpands == alg = "beam" /\ pc = "loop" /\ pc' = "loop" /\ expanded' # expanded

\* the neighbors the for loop of that step counts
BeamCounted ==
  {n \in Cells : /\ \E c \in expanded' : InSeq(n, get_neighbors(c, FALSE))
                 /\ n \notin blocked /\ n \notin visited'
                 /\ ~InSeq(n, open_list)}

\* C22: in beam search, a cell that the truncation to beam_width has cut
\* from the frontier is never added to the frontier again and never counted
\* again during that search.
C22_CutIsPermanent ==
  [][(alg = "beam" /\ pc = "loop") =>
       /\ \A c \in cut : ~InSeq(c, open_list')
       /\ BeamExpands => BeamCounted \cap cut = {}]_vars

\* ---------------------------------------------- beam: the bounded frontier
\* number of parent links from c back to a cell without parent, in par
RECURSIVE PathCost(_, _, _)
PathCost(par, c, n) ==
  IF par[c] = None \/ n = 0 THEN 0 ELSE 1 + PathCost(par, par[c], n - 1)

\* the cells the truncation chooses from: the frontier without the cell
\* popped, and the neighbors the step discovered
BeamCandidates ==
  {c \in Cells : InSeq(c, open_list) /\ c \notin expanded'} \cup BeamCounted

\* C23: in beam search the frontier holds at most beam_width cells at the start
\* of every loop iteration, and after each expansion step it holds the
\* beam_width cells of lowest f = g + h among the previous frontier and the
\* newly discovered neighbors, g being the path cost from the start.
C23_BeamFrontier ==
  /\ [](alg = "beam" /\ pc = "loop" => Len(open_list) <= param)
  /\ [][BeamExpands =>
          LET kept == {c \in Cells : InSeq(c, open_list')}
          IN /\ kept \subseteq BeamCandidates
             /\ Len(open_list') = Cardinality(kept)
             /\ Cardinality(kept) =
                  IF Cardinality(BeamCandidates) < param
                  THEN Cardinality(BeamCandidates) ELSE param
             /\ \A a \in kept : \A b \in BeamCandidates \ kept :
                  F(g', h', a) <= F(g', h', b)
             /\ \A a \in kept : g'[a] = PathCost(parent', a, Cardinality(Cells))]_vars

\* ------------------------------------ astar / greedy search_all: retarget
\* a step of astar.search_all or greedy.search_all that reaches a goal other
\* than the last one
ReachesGoal ==
  /\ alg \in {"astar_all", "greedy_all"} /\ pc = "loop"
  /\ Len(goals_found') = Len(goals_found) + 1
  /\ goals' # << >> /\ pc' = "loop"

\* t is the goal of gl nearest to c by Manhattan distance, the first such
FirstNearest(c, t, gl) ==
  \E i \in 1..Len(gl) :
    /\ gl[i] = t
    /\ \A j \in 1..Len(gl) :
         manhattan_distance(c, gl[j]) >= manhattan_distance(c, t)
    /\ \A j \in 1..(i - 1) :
         manhattan_distance(c, gl[j]) > manhattan_distance(c, t)

\* C24: in A* and greedy all-goals search, each time a goal is reached the
\* target of the heuristic for the next segment is the remaining goal at
\* minimum Manhattan distance from the goal just reached (the first in goal
\* order on ties), and the frontier restarts from the reached goal alone.
C24_RetargetFromReached ==
  [][ReachesGoal =>
       LET reached == goals_found'[Len(goals_found')]
       IN /\ FirstNearest(reached, goal', goals')
          /\ Len(open_list') = 1
          /\ (IF alg = "greedy_all" THEN open_list'[1][2] ELSE open_list'[1]) = reached]_vars

\* ------------------------------------------------ astar: the frontier heap
\* s, a list of cells, is a min-heap on f: no cell is below its parent position
IsHeapOnF(gg, hh, s) ==
  \A i \in 2..Len(s) : F(gg, hh, s[i \div 2]) <= F(gg, hh, s[i])

\* an iteration of the while loop of astar.search pops a cell
AstarPops == alg = "astar" /\ pc = "loop" /\ visited' # visited

\* C25: in A* search, every cell popped from the frontier has minimal
\* f = g + h among the frontier cells at that moment; the g of a frontier cell
\* is only ever replaced by a strictly smaller value, with its parent updated
\* to the cell being expanded; and the frontier is a valid min-heap on f
\* after every such update.
C25_AstarFrontier ==
  /\ [](alg = "astar" /\ pc = "loop" => IsHeapOnF(g, h, open_list))
  /\ [][AstarPops =>
          \A popped \in visited' \ visited :
            /\ \A i \in 1..Len(open_list) :
                 F(g, h, popped) <= F(g, h, open_list[i])
            /\ \A i \in 1..Len(open_list) :
                 LET c == open_list[i]
                 IN c # popped =>
                      /\ g'[c] <= g[c]
                      /\ g'[c] < g[c] => parent'[c] = popped
                      /\ g'[c] = g[c] => parent'[c] = parent[c] /\ h'[c] = h[c]]_vars

\* the cell expanded last has lowered the g of a frontier cell: the cell is
\* in the frontier with the expanded cell as parent, although a cell expanded
\* earlier is next to it and had discovered it at a greater cost
C25_Witness ==
  /\ alg = "astar" /\ pc = "loop"
  /\ \E i \in 1..Len(open_list) : \E q \in visited \ expanded :
       LET c == open_list[i]
       IN /\ Adjacent(q, c)
          /\ parent[c] \in expanded
          /\ g[c] < g[q] + 1

\* --------------------------------------------- greedy: the frontier by h
GreedyAlgs == {"greedy", "greedy_all"}

\* an iteration of the while loop of greedy.search or greedy.search_all
GreedyIterates == alg \in GreedyAlgs /\ pc = "loop" /\ open_list # << >>

\* the cells of the open list of tuples (h, cell)
GreedyFrontier(s) == {s[i][2] : i \in 1..Len(s)}

\* C26: in greedy best-first search every cell popped from the frontier has
\* minimal h among the frontier cells at that moment; g is never assigned to
\* a cell; and the h and the parent of a cell are assigned once in a goal
\* segment, when the cell is first enqueued (for the cell the segment starts
\* from, when the segment starts), and never re-evaluated.
C26_GreedyFrontier ==
  /\ [](alg \in GreedyAlgs => g = ResetG)
  /\ [][GreedyIterates =>
          LET popped == open_list[1][2]
              restarts == goals_found' # goals_found
              known == GreedyFrontier(open_list) \cup visited
          IN /\ \A c \in GreedyFrontier(open_list) : h[popped] <= h[c]
             /\ g' = g
             /\ \A c \in Cells :
                  IF restarts
                  THEN c # popped => h'[c] = h[c] /\ parent'[c] = parent[c]
                  ELSE IF c \in known
                  THEN h'[c] = h[c] /\ parent'[c] = parent[c]
                  ELSE IF c \in GreedyFrontier(open_list')
                  THEN h'[c] = manhattan_distance(c, goal) /\ parent'[c] = popped
                  ELSE h'[c] = h[c] /\ parent'[c] = parent[c]]_vars

\* the cell expanded last is next to a free cell that was in the frontier
\* already: the cell keeps the parent (and the h) it got when it was enqueued
C26_Witness ==
  /\ alg \in GreedyAlgs /\ pc = "loop"
  /\ \E c \in GreedyFrontier(open_list) : \E q \in expanded :
       /\ Adjacent(q, c)
       /\ q \in visited
       /\ parent[c] # q /\ parent[c] # None
       /\ h[c] = manhattan_distance(c, goal)

\* ------------------------------------------------- dfs: the order of pops
\* the free cells next to c that are not in vis, in the order up, left, down,
\* right
FreshNeighbors(c, vis) ==
  SelectSeq(get_neighbors(c, FALSE), LAMBDA n : n \notin blocked /\ n \notin vis)

\* an iteration of the while loop of DFS that expands the cell it pops
DfsExpands ==
  /\ alg \in {"dfs", "dfs_all"} /\ pc = "loop" /\ open_list # << >>
  /\ ~InSeq(open_list[Len(open_list)], goals)

\* C27: in DFS, after a cell is expanded the next cell popped (the last cell
\* of the stack) is that cell's first free, not yet visited neighbor in the
\* order up, left, down, right when it has one; otherwise it is the most
\* recently pushed cell still on the stack.
C27_DfsPopOrder ==
  [][DfsExpands =>
       LET current == open_list[Len(open_list)]
           rest == SubSeq(open_list, 1, Len(open_list) - 1)
           fresh == FreshNeighbors(current, visited)
       IN IF fresh # << >>
          THEN /\ open_list' # << >>
               /\ open_list'[Len(open_list')] = fresh[1]
               /\ SubSeq(open_list', 1, Len(rest)) = rest
          ELSE open_list' = rest]_vars

\* the position of cell n in the neighbors of cell c
NeighborRank(c, n) ==
  CHOOSE i \in 1..Len(get_neighbors(c, FALSE)) : get_neighbors(c, FALSE)[i] = n

\* the cell expanded last pushed two neighbors, and the one that comes first
\* in the order up, left, down, right is on top of the stack
C27_Witness ==
  /\ alg = "dfs" /\ pc = "loop" /\ Len(open_list) >= 2
  /\ \E q \in expanded :
       LET top == open_list[Len(open_list)]
           below == open_list[Len(open_list) - 1]
       IN /\ parent[top] = q /\ parent[below] = q
          /\ Adjacent(q, top) /\ Adjacent(q, below)
          /\ NeighborRank(q, top) < NeighborRank(q, below)

\* --------------------------------------- iddfs: visited and the depth limits
\* a dls call of iddfs.search or iddfs.search_all is entered
DlsEntered == pc \in {"dls", "dls_all"} /\ frames # << >>

\* the cells of the calls on the recursion stack, outermost first
RecursionPath == {frames[j].cur : j \in 1..Len(frames)}

\* C28: during every depth-limited search of IDDFS, at each call of dls the
\* visited set is exactly the set of cells on the recursion path from the
\* start to the current cell; the depth limits tried are 0, 1, 2, ... up to
\* Grid.net_area in increasing order, each starting from visited = {start},
\* and the search gives up only after the limit net_area.
C28_DlsVisitedIsPath ==
  /\ [](DlsEntered =>
          /\ visited = RecursionPath
          /\ Cardinality(RecursionPath) = Len(frames)
          /\ pc = "dls" => frames[1].cur = cell
          /\ frames[1].md = depth
          /\ depth \in 0..net_area
          /\ \A j \in 2..Len(frames) :
               /\ Adjacent(frames[j - 1].cur, frames[j].cur)
               /\ frames[j].md = frames[j - 1].md - 1
               /\ frames[j].md >= 0)
  /\ [][/\ pc = "idle" /\ pc' \in {"dls", "dls_all"}
           => depth' = 0 /\ visited' = {cell} /\ frames' = <<Frame(cell, 0, 0)>>
        /\ DlsEntered /\ pc' = pc /\ goals' = goals
           => \/ /\ depth' = depth /\ Len(frames') > 1
                 /\ frames'[1].cur = frames[1].cur /\ frames'[1].md = frames[1].md
              \/ /\ depth' = depth + 1
                 /\ visited' = {frames[1].cur}
                 /\ frames' = <<Frame(frames[1].cur, depth + 1, 0)>>
        /\ DlsEntered /\ pc' = "done" /\ result'.kind = "int" /\ goals' = goals
           => depth = net_area]_vars

\* a dls call below the outermost one is entered after an earlier neighbor of
\* a cell on the recursion path was searched without success and taken out
\* of visited again
C28_Witness ==
  /\ alg = "iddfs" /\ pc = "dls" /\ depth >= 2 /\ Len(frames) >= 2
  /\ \E j \in 1..(Len(frames) - 1) :
       LET nbrs == get_neighbors(frames[j].cur, FALSE)
       IN \E k \in 1..(frames[j].i - 1) :
            nbrs[k] \notin blocked /\ nbrs[k] \notin visited

\* ------------------------------------------- the agent's goals and its cell
SingleAlgs == {"bfs", "dfs", "iddfs", "astar", "greedy", "beam", "bidirectional"}

\* the list s after s.remove(x) for every x of the list xs, in turn
RECURSIVE RemoveEach(_, _)
RemoveEach(s, xs) ==
  IF xs = << >> THEN s ELSE RemoveEach(Remove(s, Head(xs)), Tail(xs))

\* the cells of a list of cells
ListedCells(s) == {s[i] : i \in 1..Len(s)}

\* C29: the single-goal search of every algorithm leaves the agent's goal
\* list and its cell as they are; an all-goals search takes out of the goal
\* list exactly the goals it reached (the goals of its result list), so the
\* list is empty after a call that returned a path and holds exactly the
\* goals not reached after a call that returned a count.
C29_GoalListAfterSearch ==
  /\ [](alg \in AllAlgs =>
          /\ goals = RemoveEach(goals0, goals_found)
          /\ ListedCells(goals_found) \subseteq ListedCells(goals0)
          /\ ListedCells(goals) = ListedCells(goals0) \ ListedCells(goals_found)
          /\ Len(goals) + Len(goals_found) = Len(goals0)
          /\ ReturnedPath => goals = << >> /\ result.goal = goals_found)
  /\ [][alg' \in SingleAlgs => goals' = goals /\ cell' = cell]_vars

\* bfs.search_all returned a count after it reached a goal: the goal list
\* holds the other goal, which no path of free cells leads to
C29_Witness ==
  /\ alg = "bfs_all" /\ ReturnedInt
  /\ Len(goals_found) = 1 /\ Len(goals) = 1 /\ Len(goals0) = 2
  /\ goals[1] \notin ReachFrom({cell0})
  /\ goals_found[1] \in ReachFrom({cell0})

\* ------------------------------------------------ a reachable goal is found
CompleteAlgs == {"bfs", "dfs", "astar", "greedy", "iddfs"}

\* a goal of the agent is the start or a free cell that a walk through free
\* cells leads to from the start
SomeGoalReachable == \E i \in 1..Len(goals) : goals[i] \in Reachable \ (blocked \ {cell})

\* iddfs: the count of visited cells has come to the limit
CountAtLimit == alg = "iddfs" /\ count >= param

\* C30: the single-goal search of BFS, DFS, A*, greedy and IDDFS (as long as
\* the limit of visited cells is not reached) returns a path result whenever
\* a goal can be reached from the start through free cells: it does not
\* return a count, and it does return; the depth Grid.net_area is enough for
\* every cell that can be reached.
C30_FindsReachableGoal ==
  /\ [](\A c \in Reachable : Dist(c) <= net_area)
  /\ []((alg \in CompleteAlgs /\ SomeGoalReachable /\ ReturnedInt) => CountAtLimit)
  /\ ((alg \in CompleteAlgs /\ SomeGoalReachable) ~> (ReturnedPath \/ CountAtLimit))

\* iddfs.search found, with the last but one depth it can try, a goal two or
\* more steps from its free start cell
C30_Witness ==
  /\ alg = "iddfs" /\ ReturnedPath
  /\ cell \notin blocked
  /\ depth = net_area - 1 /\ depth >= 2
  /\ Dist(result.goal) = depth

============================================================================
